---- MODULE Spec2Model ----
(***************************************************************************)
(* Model of src/util/virtypedparam.c: typed parameter slots, the           *)
(* assignment primitives, the lookup, the typed readers, the typed         *)
(* appenders and the validator.                                            *)
(*                                                                         *)
(* C strings are sequences of character codes.  A char* argument is either *)
(* NULL or such a sequence.  Owned string payloads live in a heap of       *)
(* cells; a slot's string payload is the address of its cell (0 = NULL).   *)
(***************************************************************************)
EXTENDS Integers, Sequences, FiniteSets, TLC

(* ------------------------------------------------------------------ *)
(* Bounds of the model                                                 *)
(* ------------------------------------------------------------------ *)

\* Size in bytes of the bounded name field (VIR_TYPED_PARAM_FIELD_LENGTH),
\* scaled down: a name fits iff it is shorter than this.
FieldLength == 3

\* Number of heap cells available for string payloads.
HeapSize == 4

\* Longest parameter array and longest schema given to the validator.
MaxValidate == 3
MaxSchema == 2

(* ------------------------------------------------------------------ *)
(* Type tags, in the order of VIR_ENUM_IMPL(virTypedParameter, ...)    *)
(* ------------------------------------------------------------------ *)

VIR_TYPED_PARAM_INT == 1
VIR_TYPED_PARAM_UINT == 2
VIR_TYPED_PARAM_LLONG == 3
VIR_TYPED_PARAM_ULLONG == 4
VIR_TYPED_PARAM_DOUBLE == 5
VIR_TYPED_PARAM_BOOLEAN == 6
VIR_TYPED_PARAM_STRING == 7
VIR_TYPED_PARAM_LAST == 8

\* The seven variants.
Kinds == VIR_TYPED_PARAM_INT .. VIR_TYPED_PARAM_STRING

\* virTypedParameterTypeToString: the name of a tag, "" standing for the
\* NULL the enum helper returns for a tag out of range.
virTypedParameterTypeToString(type) ==
    IF type = 0 THEN "unknown"
    ELSE IF type = VIR_TYPED_PARAM_INT THEN "int"
    ELSE IF type = VIR_TYPED_PARAM_UINT THEN "uint"
    ELSE IF type = VIR_TYPED_PARAM_LLONG THEN "llong"
    ELSE IF type = VIR_TYPED_PARAM_ULLONG THEN "ullong"
    ELSE IF type = VIR_TYPED_PARAM_DOUBLE THEN "double"
    ELSE IF type = VIR_TYPED_PARAM_BOOLEAN THEN "boolean"
    ELSE IF type = VIR_TYPED_PARAM_STRING THEN "string"
    ELSE ""

(* ------------------------------------------------------------------ *)
(* C strings                                                           *)
(* ------------------------------------------------------------------ *)

\* The null char*: no C string holds a negative character code.
NULL == <<-1>>

\* "a", "A" and a name that does not fit the name field.
NameA == <<97>>
NameUpperA == <<65>>
LongName == [i \in 1 .. FieldLength |-> 120]

\* "1", "abc", ""
Text1 == <<49>>
TextAbc == <<97, 98, 99>>
TextEmpty == << >>

\* tolower() of one character code (C locale).
ToLower(c) == IF c \in 65 .. 90 THEN c + 32 ELSE c

\* STREQ(a, b): strcmp(a, b) == 0, case-sensitive.
STREQ(a, b) ==
    /\ Len(a) = Len(b)
    /\ \A i \in 1 .. Len(a) : a[i] = b[i]

\* STRCASEEQ(a, b): strcasecmp(a, b) == 0.
STRCASEEQ(a, b) ==
    /\ Len(a) = Len(b)
    /\ \A i \in 1 .. Len(a) : ToLower(a[i]) = ToLower(b[i])

\* virStrcpyStatic(dest, src) succeeds iff src and its terminator fit the
\* field; on failure nothing is copied.
virStrcpyStatic(src) == Len(src) <= FieldLength - 1

(* ------------------------------------------------------------------ *)
(* Heap of owned strings                                               *)
(* ------------------------------------------------------------------ *)

FreeCell == [live |-> FALSE, s |-> << >>]

EmptyHeap == [a \in 1 .. HeapSize |-> FreeCell]

\* strdup(s): the address of a fresh cell holding a copy of s, or 0 when
\* the allocation fails (oom).
strdup(h, s, oom) ==
    IF oom \/ \A a \in 1 .. HeapSize : h[a].live
    THEN [ptr |-> 0, heap |-> h]
    ELSE LET a == CHOOSE x \in 1 .. HeapSize :
                     /\ ~h[x].live
                     /\ \A y \in 1 .. x - 1 : h[y].live
         IN [ptr |-> a, heap |-> [h EXCEPT ![a] = [live |-> TRUE, s |-> s]]]

\* VIR_FREE(ptr): release the cell; freeing NULL is a no-op.
VIR_FREE(h, ptr) ==
    IF ptr = 0 THEN h ELSE [h EXCEPT ![ptr] = FreeCell]

(* ------------------------------------------------------------------ *)
(* Parameter slots                                                     *)
(* ------------------------------------------------------------------ *)

\* A slot of zero-filled memory.  field: the name; type: the tag; value:
\* the union's content (a number, or the address of a string); arm: the
\* variant of the payload last stored in the union (0: none).
ZeroSlot == [field |-> << >>, type |-> 0, arm |-> 0, value |-> 0]

(* ------------------------------------------------------------------ *)
(* Text parsing helpers used by virTypedParameterAssignFromStr         *)
(* ------------------------------------------------------------------ *)

IsDigit(c) == c \in 48 .. 57

RECURSIVE DigitsValue(_)
DigitsValue(s) ==
    IF Len(s) = 0 THEN 0
    ELSE 10 * DigitsValue(SubSeq(s, 1, Len(s) - 1)) + (s[Len(s)] - 48)

\* virStrToLong_i / _ui / _ll / _ull and virStrToDouble on a full string:
\* base 10, the whole string must be a number.  ok = FALSE is the -1 they
\* return, and then the destination is not written.
virStrToLong(val, signed) ==
    LET neg == Len(val) >= 1 /\ val[1] = 45
        digits == IF neg THEN SubSeq(val, 2, Len(val)) ELSE val
    IN IF Len(digits) = 0 \/ (\E i \in 1 .. Len(digits) : ~IsDigit(digits[i]))
          \/ (neg /\ ~signed)
       THEN [ok |-> FALSE, v |-> 0]
       ELSE [ok |-> TRUE,
             v |-> IF neg THEN 0 - DigitsValue(digits) ELSE DigitsValue(digits)]

(* ------------------------------------------------------------------ *)
(* Assignment primitives                                               *)
(* ------------------------------------------------------------------ *)

\* The error kinds of the last-error slot are "invalid_arg", "oom" and
\* "internal"; "none" is the empty slot.  In the results of the primitives
\* below err = "none" says that the call reported nothing (they never
\* reset the slot).

\* param->type = type and the switch of virTypedParameterAssign, run once
\* the name is in the field.  arg is the variadic argument: a number, or
\* for the string variant the address of a string the caller allocated
\* (0 = NULL).
AssignSwitch(param, name, type, arg, h, oom) ==
    LET p == [param EXCEPT !.field = name, !.type = type]
    IN IF type \in {VIR_TYPED_PARAM_INT, VIR_TYPED_PARAM_UINT,
                    VIR_TYPED_PARAM_LLONG, VIR_TYPED_PARAM_ULLONG,
                    VIR_TYPED_PARAM_DOUBLE}
       THEN [ret |-> 0, heap |-> h, err |-> "none",
             param |-> [p EXCEPT !.value = arg, !.arm = type]]
       ELSE IF type = VIR_TYPED_PARAM_BOOLEAN
       THEN [ret |-> 0, heap |-> h, err |-> "none",
             param |-> [p EXCEPT !.value = IF arg # 0 THEN 1 ELSE 0,
                                 !.arm = type]]
       ELSE IF type = VIR_TYPED_PARAM_STRING
       THEN IF arg # 0
            THEN [ret |-> 0, heap |-> h, err |-> "none",
                  param |-> [p EXCEPT !.value = arg, !.arm = type]]
            ELSE LET d == strdup(h, TextEmpty, oom)
                 IN IF d.ptr = 0
                    THEN [ret |-> -1, heap |-> h, err |-> "oom",
                          param |-> [p EXCEPT !.value = 0, !.arm = type]]
                    ELSE [ret |-> 0, heap |-> d.heap, err |-> "none",
                          param |-> [p EXCEPT !.value = d.ptr,
                                              !.arm = type]]
       ELSE [ret |-> -1, param |-> p, heap |-> h, err |-> "internal"]

\* Variant: the name is cut to what the field holds instead of being
\* refused.
virTypedParameterAssign_truncating(param, name, type, arg, h, oom) ==
    AssignSwitch(param,
                 IF virStrcpyStatic(name) THEN name
                 ELSE SubSeq(name, 1, FieldLength - 1),
                 type, arg, h, oom)

\* virTypedParameterAssign(param, name, type, ...).
virTypedParameterAssign(param, name, type, arg, h, oom) ==
    IF ~virStrcpyStatic(name)
    THEN [ret |-> -1, param |-> param, heap |-> h, err |-> "internal"]
    ELSE AssignSwitch(param, name, type, arg, h, oom)

\* Variant: "true" and "false" are compared case-sensitively.
ParseBoolean_caseSensitive(val) ==
    IF STREQ(val, <<116, 114, 117, 101>>) \/ STREQ(val, <<49>>)
    THEN [ok |-> TRUE, v |-> 1]
    ELSE IF STREQ(val, <<102, 97, 108, 115, 101>>) \/ STREQ(val, <<48>>)
    THEN [ok |-> TRUE, v |-> 0]
    ELSE [ok |-> FALSE, v |-> 0]

\* The boolean case of virTypedParameterAssignFromStr: "true" in any case
\* or "1" is true, "false" in any case or "0" is false, anything else is
\* refused (ok = FALSE) and nothing is stored.
ParseBoolean(val) ==
    IF STRCASEEQ(val, <<116, 114, 117, 101>>) \/ STREQ(val, <<49>>)
    THEN [ok |-> TRUE, v |-> 1]
    ELSE IF STRCASEEQ(val, <<102, 97, 108, 115, 101>>) \/ STREQ(val, <<48>>)
    THEN [ok |-> TRUE, v |-> 0]
    ELSE [ok |-> FALSE, v |-> 0]

\* virTypedParameterAssignFromStr from the copy of the name on, val being
\* a text.
AssignFromStrNamed(param, name, type, val, h, oom) ==
    IF ~virStrcpyStatic(name)
    THEN [ret |-> -1, param |-> param, heap |-> h, err |-> "internal"]
    ELSE LET p == [param EXCEPT !.field = name, !.type = type]
         IN IF type \in {VIR_TYPED_PARAM_INT, VIR_TYPED_PARAM_UINT,
                         VIR_TYPED_PARAM_LLONG, VIR_TYPED_PARAM_ULLONG,
                         VIR_TYPED_PARAM_DOUBLE}
            THEN LET r == virStrToLong(val,
                              type \in {VIR_TYPED_PARAM_INT,
                                        VIR_TYPED_PARAM_LLONG,
                                        VIR_TYPED_PARAM_DOUBLE})
                 IN IF ~r.ok
                    THEN [ret |-> -1, param |-> p, heap |-> h,
                          err |-> "invalid_arg"]
                    ELSE [ret |-> 0, heap |-> h, err |-> "none",
                          param |-> [p EXCEPT !.value = r.v, !.arm = type]]
            ELSE IF type = VIR_TYPED_PARAM_BOOLEAN
            THEN LET b == ParseBoolean(val)
                 IN IF b.ok
                    THEN [ret |-> 0, heap |-> h, err |-> "none",
                          param |-> [p EXCEPT !.value = b.v, !.arm = type]]
                    ELSE [ret |-> -1, param |-> p, heap |-> h,
                          err |-> "invalid_arg"]
            ELSE IF type = VIR_TYPED_PARAM_STRING
            THEN LET d == strdup(h, val, oom)
                 IN IF d.ptr = 0
                    THEN [ret |-> -1, heap |-> h, err |-> "oom",
                          param |-> [p EXCEPT !.value = 0, !.arm = type]]
                    ELSE [ret |-> 0, heap |-> d.heap, err |-> "none",
                          param |-> [p EXCEPT !.value = d.ptr, !.arm = type]]
            ELSE [ret |-> -1, param |-> p, heap |-> h, err |-> "internal"]

\* Variant: the text is tested for NULL only after the name and the tag
\* are in the slot.
virTypedParameterAssignFromStr_lateNull(param, name, type, val, h, oom) ==
    IF val # NULL
    THEN AssignFromStrNamed(param, name, type, val, h, oom)
    ELSE IF ~virStrcpyStatic(name)
    THEN [ret |-> -1, param |-> param, heap |-> h, err |-> "internal"]
    ELSE [ret |-> -1, heap |-> h, err |-> "invalid_arg",
          param |-> [param EXCEPT !.field = name, !.type = type]]

\* virTypedParameterAssignFromStr(param, name, type, val).
virTypedParameterAssignFromStr(param, name, type, val, h, oom) ==
    IF val = NULL
    THEN [ret |-> -1, param |-> param, heap |-> h, err |-> "invalid_arg"]
    ELSE AssignFromStrNamed(param, name, type, val, h, oom)

(* ------------------------------------------------------------------ *)
(* Lookup and typed readers                                            *)
(* ------------------------------------------------------------------ *)

\* Variant: the scan runs to index nparams inclusive (i <= nparams), as
\* far as the array reaches.
virTypedParamsGet_inclusive(P, nparams, name) ==
    IF P = << >> \/ name = NULL
    THEN 0
    ELSE LET last == IF nparams + 1 <= Len(P) THEN nparams + 1 ELSE Len(P)
             hits == {i \in 1 .. last : STREQ(P[i].field, name)}
         IN IF hits = {} THEN 0
            ELSE CHOOSE i \in hits : \A j \in hits : i <= j

\* Variant: the scan starts at the second slot (i = 1).
virTypedParamsGet_skipFirst(P, nparams, name) ==
    IF P = << >> \/ name = NULL
    THEN 0
    ELSE LET hits == {i \in 2 .. nparams : STREQ(P[i].field, name)}
         IN IF hits = {} THEN 0
            ELSE CHOOSE i \in hits : \A j \in hits : i <= j

\* Variant: the names are compared without regard to case.
virTypedParamsGet_anyCase(P, nparams, name) ==
    IF P = << >> \/ name = NULL
    THEN 0
    ELSE LET hits == {i \in 1 .. nparams : STRCASEEQ(P[i].field, name)}
         IN IF hits = {} THEN 0
            ELSE CHOOSE i \in hits : \A j \in hits : i <= j

\* virTypedParamsGet(params, nparams, name): the index (from 1) of the
\* first slot below nparams whose field equals name, 0 for NULL.  The
\* empty sequence is the NULL array.  It always resets the last error.
virTypedParamsGet(P, nparams, name) ==
    IF P = << >> \/ name = NULL
    THEN 0
    ELSE LET hits == {i \in 1 .. nparams : STREQ(P[i].field, name)}
         IN IF hits = {} THEN 0
            ELSE CHOOSE i \in hits : \A j \in hits : i <= j

\* Variant: the type check never fires.
VIR_TYPED_PARAM_CHECK_TYPE_never(param, check_type) == TRUE

\* VIR_TYPED_PARAM_CHECK_TYPE(check_type): TRUE when the macro lets the
\* reader go on; otherwise the reader reports invalid-argument, calls
\* virDispatchError and returns -1.
VIR_TYPED_PARAM_CHECK_TYPE(param, check_type) == param.type = check_type

\* The body shared by virTypedParamsGetInt, GetUInt, GetLLong, GetULLong,
\* GetDouble and GetString: reset, look up, check the type, copy out.
\* written says whether *value was stored to.
TypedReader(P, nparams, name, check_type, hasOut) ==
    LET i == virTypedParamsGet(P, nparams, name)
    IN IF i = 0
       THEN [ret |-> 0, written |-> FALSE, out |-> 0, err |-> "none",
             dispatched |-> << >>]
       ELSE IF ~VIR_TYPED_PARAM_CHECK_TYPE(P[i], check_type)
       THEN [ret |-> -1, written |-> FALSE, out |-> 0, err |-> "invalid_arg",
             dispatched |-> <<"invalid_arg">>]
       ELSE [ret |-> 1, written |-> hasOut,
             out |-> IF hasOut THEN P[i].value ELSE 0,
             err |-> "none", dispatched |-> << >>]

virTypedParamsGetInt(P, nparams, name, hasOut) ==
    TypedReader(P, nparams, name, VIR_TYPED_PARAM_INT, hasOut)

\* Variant: the uint reader checks for the int tag.
virTypedParamsGetUInt_asInt(P, nparams, name, hasOut) ==
    TypedReader(P, nparams, name, VIR_TYPED_PARAM_INT, hasOut)

virTypedParamsGetUInt(P, nparams, name, hasOut) ==
    TypedReader(P, nparams, name, VIR_TYPED_PARAM_UINT, hasOut)

virTypedParamsGetLLong(P, nparams, name, hasOut) ==
    TypedReader(P, nparams, name, VIR_TYPED_PARAM_LLONG, hasOut)

virTypedParamsGetULLong(P, nparams, name, hasOut) ==
    TypedReader(P, nparams, name, VIR_TYPED_PARAM_ULLONG, hasOut)

virTypedParamsGetDouble(P, nparams, name, hasOut) ==
    TypedReader(P, nparams, name, VIR_TYPED_PARAM_DOUBLE, hasOut)

\* Variant: the boolean reader copies the stored value as it is.
virTypedParamsGetBoolean_raw(P, nparams, name, hasOut) ==
    TypedReader(P, nparams, name, VIR_TYPED_PARAM_BOOLEAN, hasOut)

\* virTypedParamsGetBoolean: looks up first (the lookup resets the last
\* error), resets again, and stores !!value.
virTypedParamsGetBoolean(P, nparams, name, hasOut) ==
    LET i == virTypedParamsGet(P, nparams, name)
    IN IF i = 0
       THEN [ret |-> 0, written |-> FALSE, out |-> 0, err |-> "none",
             dispatched |-> << >>]
       ELSE IF ~VIR_TYPED_PARAM_CHECK_TYPE(P[i], VIR_TYPED_PARAM_BOOLEAN)
       THEN [ret |-> -1, written |-> FALSE, out |-> 0, err |-> "invalid_arg",
             dispatched |-> <<"invalid_arg">>]
       ELSE [ret |-> 1, written |-> hasOut,
             out |-> IF hasOut THEN (IF P[i].value # 0 THEN 1 ELSE 0) ELSE 0,
             err |-> "none", dispatched |-> << >>]

virTypedParamsGetString(P, nparams, name, hasOut) ==
    TypedReader(P, nparams, name, VIR_TYPED_PARAM_STRING, hasOut)

\* The reader of a kind.
Reader(kind, P, nparams, name, hasOut) ==
    CASE kind = VIR_TYPED_PARAM_INT -> virTypedParamsGetInt(P, nparams, name, hasOut)
      [] kind = VIR_TYPED_PARAM_UINT -> virTypedParamsGetUInt(P, nparams, name, hasOut)
      [] kind = VIR_TYPED_PARAM_LLONG -> virTypedParamsGetLLong(P, nparams, name, hasOut)
      [] kind = VIR_TYPED_PARAM_ULLONG -> virTypedParamsGetULLong(P, nparams, name, hasOut)
      [] kind = VIR_TYPED_PARAM_DOUBLE -> virTypedParamsGetDouble(P, nparams, name, hasOut)
      [] kind = VIR_TYPED_PARAM_BOOLEAN -> virTypedParamsGetBoolean(P, nparams, name, hasOut)
      [] kind = VIR_TYPED_PARAM_STRING -> virTypedParamsGetString(P, nparams, name, hasOut)

\* virResetLastError(): the last-error slot e is emptied.
virResetLastError(e) == "none"

\* Variant: the lookup leaves the last-error slot alone.
LastErrorOfGet_kept(e) == e

\* The last-error slot after virTypedParamsGet, which held e on entry.
LastErrorOfGet(e) == virResetLastError(e)

\* The last-error slot after virTypedParamsGetInt, GetUInt, GetLLong,
\* GetULLong, GetDouble or GetString with result r: reset, lookup, then
\* the report of the type check if it fails.
LastErrorOfReader(e, r) ==
    LET reset == virResetLastError(e)
        looked == LastErrorOfGet(reset)
    IN IF r.ret = -1 THEN "invalid_arg" ELSE looked

\* The last-error slot after virTypedParamsGetBoolean with result r:
\* lookup, return 0 when nothing is found, otherwise reset, then the
\* report of the type check if it fails.
LastErrorOfGetBoolean(e, r) ==
    LET looked == LastErrorOfGet(e)
    IN IF r.ret = 0 THEN looked
       ELSE LET reset == virResetLastError(looked)
            IN IF r.ret = -1 THEN "invalid_arg" ELSE reset

(* ------------------------------------------------------------------ *)
(* Typed appenders                                                     *)
(* ------------------------------------------------------------------ *)

\* VIR_RESIZE_N(*params, max, n, add): make room for n + add slots.  Grows
\* by at least half of the current allocation; new slots are zero-filled.
\* Nothing changes when the room is there already or the allocation fails.
VIR_RESIZE_N(P, max, n, add, oom) ==
    IF n + add <= max
    THEN [ret |-> 0, arr |-> P, max |-> max]
    ELSE IF oom
    THEN [ret |-> -1, arr |-> P, max |-> max]
    ELSE LET need == n + add - max
             delta == IF need < max \div 2 THEN max \div 2 ELSE need
             newmax == max + delta
         IN [ret |-> 0, max |-> newmax,
             arr |-> [i \in 1 .. newmax |->
                         IF i <= Len(P) THEN P[i] ELSE ZeroSlot]]

\* Variant: the duplicate check never fires.
VIR_TYPED_PARAM_CHECK_never(P, n, name) == FALSE

\* VIR_TYPED_PARAM_CHECK(): TRUE when the name is already set, and the
\* appender reports invalid-argument and goes to its error label.
VIR_TYPED_PARAM_CHECK(P, n, name) == virTypedParamsGet(P, n, name) # 0

\* Variant: the count was incremented before the failure and is not
\* rolled back.
AddFailed_countBumped(P, nparams, maxparams, h, err) ==
    [params |-> P, nparams |-> nparams + 1, maxparams |-> maxparams,
     heap |-> h, err |-> err, ret |-> -1, dispatched |-> <<err>>]

\* Variant: the error label returns without calling virDispatchError.
AddFailed_noDispatch(P, nparams, maxparams, h, err) ==
    [params |-> P, nparams |-> nparams, maxparams |-> maxparams, heap |-> h,
     err |-> err, ret |-> -1, dispatched |-> << >>]

\* The error label of an appender: virDispatchError is called once and
\* -1 returned; P, maxparams and h are the array, *maxparams and the heap
\* as the code before the goto left them, err the error it reported.
\* dispatched lists, call by call, the error virDispatchError found in
\* the last-error slot.
AddFailed(P, nparams, maxparams, h, err) ==
    [params |-> P, nparams |-> nparams, maxparams |-> maxparams, heap |-> h,
     err |-> err, ret |-> -1, dispatched |-> <<err>>]

\* Variant: the success exit does not increment *nparams.
AddCommitted_noIncrement(P, nparams, maxparams, h) ==
    [params |-> P, nparams |-> nparams, maxparams |-> maxparams,
     heap |-> h, err |-> "none", ret |-> 0, dispatched |-> << >>]

\* Variant: the new entry is put in front of the live entries.
AddCommitted_inFront(P, nparams, maxparams, h) ==
    [params |-> [i \in 1 .. Len(P) |->
                    IF i = 1 THEN P[nparams + 1]
                    ELSE IF i <= nparams + 1 THEN P[i - 1] ELSE P[i]],
     nparams |-> nparams + 1, maxparams |-> maxparams,
     heap |-> h, err |-> "none", ret |-> 0, dispatched |-> << >>]

\* The success exit of an appender: *nparams += 1; return 0.
AddCommitted(P, nparams, maxparams, h) ==
    [params |-> P, nparams |-> nparams + 1, maxparams |-> maxparams,
     heap |-> h, err |-> "none", ret |-> 0, dispatched |-> << >>]

\* Variant: *maxparams = max is missing, the caller keeps the old capacity.
AddNative_staleMax(P, nparams, maxparams, h, name, type, value, oomResize) ==
    LET n == nparams
    IN IF virTypedParamsGet(P, n, name) # 0
       THEN [params |-> P, nparams |-> nparams, maxparams |-> maxparams,
             heap |-> h, err |-> "invalid_arg", ret |-> -1,
             dispatched |-> <<"invalid_arg">>]
       ELSE LET rs == VIR_RESIZE_N(P, maxparams, n, 1, oomResize)
            IN IF rs.ret < 0
               THEN [params |-> P, nparams |-> nparams, maxparams |-> maxparams,
                     heap |-> h, err |-> "oom", ret |-> -1,
                     dispatched |-> <<"oom">>]
               ELSE LET a == virTypedParameterAssign(rs.arr[n + 1], name, type,
                                                     value, h, FALSE)
                        arr == [rs.arr EXCEPT ![n + 1] = a.param]
                    IN IF a.ret < 0
                       THEN [params |-> arr, nparams |-> nparams,
                             maxparams |-> maxparams, heap |-> a.heap,
                             err |-> a.err, ret |-> -1,
                             dispatched |-> <<a.err>>]
                       ELSE [params |-> arr, nparams |-> nparams + 1,
                             maxparams |-> maxparams, heap |-> a.heap,
                             err |-> "none", ret |-> 0, dispatched |-> << >>]

\* Variant: room is asked for two more entries (VIR_RESIZE_N(.., n, 2)).
AddNative_roomForTwo(P, nparams, maxparams, h, name, type, value, oomResize) ==
    LET n == nparams
    IN IF VIR_TYPED_PARAM_CHECK(P, n, name)
       THEN AddFailed(P, nparams, maxparams, h, "invalid_arg")
       ELSE LET rs == VIR_RESIZE_N(P, maxparams, n, 2, oomResize)
            IN IF rs.ret < 0
               THEN AddFailed(P, nparams, maxparams, h, "oom")
               ELSE LET a == virTypedParameterAssign(rs.arr[n + 1], name, type,
                                                     value, h, FALSE)
                        arr == [rs.arr EXCEPT ![n + 1] = a.param]
                    IN IF a.ret < 0
                       THEN AddFailed(arr, nparams, rs.max, a.heap, a.err)
                       ELSE AddCommitted(arr, nparams, rs.max, a.heap)

\* The body shared by virTypedParamsAddInt, AddUInt, AddLLong, AddULLong,
\* AddDouble and AddBoolean, which differ in the tag and the C type of
\* value only.
AddNative(P, nparams, maxparams, h, name, type, value, oomResize) ==
    LET n == nparams
    IN IF VIR_TYPED_PARAM_CHECK(P, n, name)
       THEN AddFailed(P, nparams, maxparams, h, "invalid_arg")
       ELSE LET rs == VIR_RESIZE_N(P, maxparams, n, 1, oomResize)
            IN IF rs.ret < 0
               THEN AddFailed(P, nparams, maxparams, h, "oom")
               ELSE LET a == virTypedParameterAssign(rs.arr[n + 1], name, type,
                                                     value, h, FALSE)
                        arr == [rs.arr EXCEPT ![n + 1] = a.param]
                    IN IF a.ret < 0
                       THEN AddFailed(arr, nparams, rs.max, a.heap, a.err)
                       ELSE AddCommitted(arr, nparams, rs.max, a.heap)

virTypedParamsAddInt(P, nparams, maxparams, h, name, value, oomResize) ==
    AddNative(P, nparams, maxparams, h, name, VIR_TYPED_PARAM_INT, value,
              oomResize)

virTypedParamsAddUInt(P, nparams, maxparams, h, name, value, oomResize) ==
    AddNative(P, nparams, maxparams, h, name, VIR_TYPED_PARAM_UINT, value,
              oomResize)

virTypedParamsAddLLong(P, nparams, maxparams, h, name, value, oomResize) ==
    AddNative(P, nparams, maxparams, h, name, VIR_TYPED_PARAM_LLONG, value,
              oomResize)

virTypedParamsAddULLong(P, nparams, maxparams, h, name, value, oomResize) ==
    AddNative(P, nparams, maxparams, h, name, VIR_TYPED_PARAM_ULLONG, value,
              oomResize)

virTypedParamsAddDouble(P, nparams, maxparams, h, name, value, oomResize) ==
    AddNative(P, nparams, maxparams, h, name, VIR_TYPED_PARAM_DOUBLE, value,
              oomResize)

virTypedParamsAddBoolean(P, nparams, maxparams, h, name, value, oomResize) ==
    AddNative(P, nparams, maxparams, h, name, VIR_TYPED_PARAM_BOOLEAN, value,
              oomResize)

\* virTypedParamsAddFromString.
virTypedParamsAddFromString(P, nparams, maxparams, h, name, type, value, oomResize, oomCopy) ==
    LET n == nparams
    IN IF VIR_TYPED_PARAM_CHECK(P, n, name)
       THEN AddFailed(P, nparams, maxparams, h, "invalid_arg")
       ELSE LET rs == VIR_RESIZE_N(P, maxparams, n, 1, oomResize)
            IN IF rs.ret < 0
               THEN AddFailed(P, nparams, maxparams, h, "oom")
               ELSE LET a == virTypedParameterAssignFromStr(
                                 rs.arr[n + 1], name, type, value, h, oomCopy)
                        arr == [rs.arr EXCEPT ![n + 1] = a.param]
                    IN IF a.ret < 0
                       THEN AddFailed(arr, nparams, rs.max, a.heap, a.err)
                       ELSE AddCommitted(arr, nparams, rs.max, a.heap)

\* Variant: a NULL string is stored as it is, no empty string is made for
\* it.
virTypedParamsAddString_nullKept(P, nparams, maxparams, h, name, value, oomResize, oomCopy, oomEmpty) ==
    IF value # NULL
    THEN virTypedParamsAddFromString(P, nparams, maxparams, h, name,
                                     VIR_TYPED_PARAM_STRING, value,
                                     oomResize, oomCopy)
    ELSE LET r == AddNative(P, nparams, maxparams, h, name,
                            VIR_TYPED_PARAM_LLONG, 0, oomResize)
         IN IF r.ret < 0 THEN r
            ELSE [r EXCEPT !.params[nparams + 1].type = VIR_TYPED_PARAM_STRING,
                           !.params[nparams + 1].arm = VIR_TYPED_PARAM_STRING]

\* virTypedParamsAddString: value is the caller's string (or NULL), which
\* is copied; the copy is released when the assignment fails.
virTypedParamsAddString(P, nparams, maxparams, h, name, value, oomResize, oomCopy, oomEmpty) ==
    LET n == nparams
    IN IF VIR_TYPED_PARAM_CHECK(P, n, name)
       THEN AddFailed(P, nparams, maxparams, h, "invalid_arg")
       ELSE LET rs == VIR_RESIZE_N(P, maxparams, n, 1, oomResize)
            IN IF rs.ret < 0
               THEN AddFailed(P, nparams, maxparams, h, "oom")
               ELSE LET d == IF value = NULL THEN [ptr |-> 0, heap |-> h]
                             ELSE strdup(h, value, oomCopy)
                    IN IF value # NULL /\ d.ptr = 0
                       THEN AddFailed(rs.arr, nparams, rs.max, h, "oom")
                       ELSE LET a == virTypedParameterAssign(
                                         rs.arr[n + 1], name,
                                         VIR_TYPED_PARAM_STRING, d.ptr,
                                         d.heap, oomEmpty)
                                arr == [rs.arr EXCEPT ![n + 1] = a.param]
                            IN IF a.ret < 0
                               THEN AddFailed(arr, nparams, rs.max,
                                              VIR_FREE(a.heap, d.ptr), a.err)
                               ELSE AddCommitted(arr, nparams, rs.max, a.heap)

(* ------------------------------------------------------------------ *)
(* Lifecycle                                                           *)
(* ------------------------------------------------------------------ *)

\* Variant: the payload is handed to free() and the pointer stays in the
\* slot.
RECURSIVE ClearLoop_keepsPointer(_, _, _, _, _)
ClearLoop_keepsPointer(P, nparams, h, i, released) ==
    IF i > nparams
    THEN [params |-> P, heap |-> h, released |-> released]
    ELSE IF P[i].type = VIR_TYPED_PARAM_STRING
    THEN ClearLoop_keepsPointer(P, nparams, VIR_FREE(h, P[i].value), i + 1,
                                IF P[i].value = 0 THEN released
                                ELSE Append(released, P[i].value))
    ELSE ClearLoop_keepsPointer(P, nparams, h, i + 1, released)

\* The for loop of virTypedParamsClear from index i on: every slot below
\* nparams tagged string has its payload released and its pointer set to
\* NULL by VIR_FREE.  released lists the non-null addresses handed to
\* free(), in order.
RECURSIVE ClearLoop(_, _, _, _, _)
ClearLoop(P, nparams, h, i, released) ==
    IF i > nparams
    THEN [params |-> P, heap |-> h, released |-> released]
    ELSE IF P[i].type = VIR_TYPED_PARAM_STRING
    THEN ClearLoop([P EXCEPT ![i].value = 0], nparams,
                   VIR_FREE(h, P[i].value), i + 1,
                   IF P[i].value = 0 THEN released
                   ELSE Append(released, P[i].value))
    ELSE ClearLoop(P, nparams, h, i + 1, released)

\* Variant: the loop stops one slot early (i < nparams - 1).
virTypedParamsClear_skipLast(P, nparams, h) ==
    IF P = << >>
    THEN [params |-> P, heap |-> h, released |-> << >>]
    ELSE ClearLoop(P, nparams - 1, h, 1, << >>)

\* virTypedParamsClear(params, nparams); a NULL array is left alone.
virTypedParamsClear(P, nparams, h) ==
    IF P = << >>
    THEN [params |-> P, heap |-> h, released |-> << >>]
    ELSE ClearLoop(P, nparams, h, 1, << >>)

\* virTypedParamsFree(params, nparams): clear, then release the array.
virTypedParamsFree(P, nparams, h) ==
    LET c == virTypedParamsClear(P, nparams, h)
    IN [params |-> << >>, heap |-> c.heap, released |-> c.released]

(* ------------------------------------------------------------------ *)
(* Validator                                                           *)
(* ------------------------------------------------------------------ *)

\* Variant: the scan of the schema goes on to the last entry of the name.
SchemaLookup_last(schema, name) ==
    LET hits == {k \in 1 .. Len(schema) : STREQ(name, schema[k].name)}
    IN IF hits = {} THEN 0 ELSE CHOOSE k \in hits : \A l \in hits : k >= l

\* The index of the first schema entry named name, 0 when the va_list is
\* exhausted (name == NULL after the while loop).
SchemaLookup(schema, name) ==
    LET hits == {k \in 1 .. Len(schema) : STREQ(name, schema[k].name)}
    IN IF hits = {} THEN 0 ELSE CHOOSE k \in hits : \A l \in hits : k <= l

\* The type-mismatch report of the validator: the names of the actual and
\* the expected type that go into the message.
TypeMismatchReport(actual, expected) ==
    [err |-> "invalid_arg",
     badtype |-> IF virTypedParameterTypeToString(actual) = ""
                 THEN virTypedParameterTypeToString(0)
                 ELSE virTypedParameterTypeToString(actual),
     expected |-> virTypedParameterTypeToString(expected)]

\* Variant: the validator leaves for its cleanup label without reporting.
PlainReport_silent(err) == [err |-> "none", badtype |-> "", expected |-> ""]

\* A report that names no types, and no report at all.
PlainReport(err) == [err |-> err, badtype |-> "", expected |-> ""]

\* The for loop of virTypedParameterArrayValidate from index i on; rep is
\* the last report made so far (err = "none": nothing reported).
RECURSIVE ValidateLoop(_, _, _, _, _)
ValidateLoop(P, nparams, schema, i, rep) ==
    IF i > nparams
    THEN [ret |-> 0, rep |-> rep]
    ELSE LET k == SchemaLookup(schema, P[i].field)
             rep1 == IF k # 0 /\ P[i].type # schema[k].type
                     THEN TypeMismatchReport(P[i].type, schema[k].type)
                     ELSE rep
         IN IF k = 0
            THEN [ret |-> -1, rep |-> PlainReport("invalid_arg")]
            ELSE IF \E j \in 1 .. i - 1 : STREQ(P[i].field, P[j].field)
            THEN [ret |-> -1, rep |-> PlainReport("invalid_arg")]
            ELSE ValidateLoop(P, nparams, schema, i + 1, rep1)

\* virTypedParameterArrayValidate(params, nparams, name1, type1, ..., NULL).
\* It does not reset the last error; rep.err = "none" says nothing was
\* reported.
virTypedParameterArrayValidate(P, nparams, schema) ==
    ValidateLoop(P, nparams, schema, 1, PlainReport("none"))

(* ------------------------------------------------------------------ *)
(* State                                                               *)
(* ------------------------------------------------------------------ *)

VARIABLES
    params,     \* the array *params: a sequence of slots, << >> for NULL
    nparams,    \* *nparams: the number of live entries
    maxparams,  \* *maxparams: the capacity reported to the caller
    heap,       \* the owned strings
    lastErr,    \* the thread's last-error slot
    schema,     \* the name/type pairs given to the validator
    call        \* the last call made: its arguments and what it returned

vars == <<params, nparams, maxparams, heap, lastErr, schema, call>>

\* The content of the string at an address ("" for a released cell).
StrAt(h, ptr) == IF ptr = 0 THEN NULL ELSE h[ptr].s

\* Inputs of the calls.  oom names the allocation of the call that fails,
\* if any: the array growth, the copy of the string, or the empty string
\* made for a NULL string.
AddNames == {NameA, NameUpperA, LongName}
LookupNames == {NameA, NameUpperA, LongName, NULL}
Texts == {NULL, Text1, TextAbc}
Tags == Kinds \cup {VIR_TYPED_PARAM_LAST}
OomPoints == {"none", "resize", "copy", "empty"}

NativeValues(type) ==
    CASE type = VIR_TYPED_PARAM_INT -> {-1, 5}
      [] type = VIR_TYPED_PARAM_UINT -> {7}
      [] type = VIR_TYPED_PARAM_LLONG -> {-9}
      [] type = VIR_TYPED_PARAM_ULLONG -> {11}
      [] type = VIR_TYPED_PARAM_DOUBLE -> {3}
      [] type = VIR_TYPED_PARAM_BOOLEAN -> {0, 1, 2}

NativeStrings == {NULL, TextAbc}

\* What the caller sees of a call: the entry point, the result code,
\* whether *value was stored to and with what, and the calls of
\* virDispatchError (each with the error it found recorded).
NoCall ==
    [op |-> "none", ret |-> 0, written |-> FALSE, out |-> 0, dispatched |-> << >>]

Init ==
    /\ params = << >>
    /\ nparams = 0
    /\ maxparams = 0
    /\ heap = EmptyHeap
    /\ lastErr = "none"
    /\ schema = << >>
    /\ call = NoCall

\* An appender has run with result r.
Added(op, r) ==
    /\ params' = r.params
    /\ nparams' = r.nparams
    /\ maxparams' = r.maxparams
    /\ heap' = r.heap
    /\ lastErr' = r.err
    /\ call' = [NoCall EXCEPT !.op = op, !.ret = r.ret,
                              !.dispatched = r.dispatched]
    /\ UNCHANGED schema

AddInt ==
    \E name \in AddNames, v \in NativeValues(VIR_TYPED_PARAM_INT),
       oom \in {"none", "resize"} :
        Added("add",
              virTypedParamsAddInt(params, nparams, maxparams, heap, name, v,
                                   oom = "resize"))

AddUInt ==
    \E name \in AddNames, v \in NativeValues(VIR_TYPED_PARAM_UINT),
       oom \in {"none", "resize"} :
        Added("add",
              virTypedParamsAddUInt(params, nparams, maxparams, heap, name, v,
                                    oom = "resize"))

AddLLong ==
    \E name \in AddNames, v \in NativeValues(VIR_TYPED_PARAM_LLONG),
       oom \in {"none", "resize"} :
        Added("add",
              virTypedParamsAddLLong(params, nparams, maxparams, heap, name, v,
                                     oom = "resize"))

AddULLong ==
    \E name \in AddNames, v \in NativeValues(VIR_TYPED_PARAM_ULLONG),
       oom \in {"none", "resize"} :
        Added("add",
              virTypedParamsAddULLong(params, nparams, maxparams, heap, name, v,
                                      oom = "resize"))

AddDouble ==
    \E name \in AddNames, v \in NativeValues(VIR_TYPED_PARAM_DOUBLE),
       oom \in {"none", "resize"} :
        Added("add",
              virTypedParamsAddDouble(params, nparams, maxparams, heap, name, v,
                                      oom = "resize"))

AddBoolean ==
    \E name \in AddNames, v \in NativeValues(VIR_TYPED_PARAM_BOOLEAN),
       oom \in {"none", "resize"} :
        Added("add",
              virTypedParamsAddBoolean(params, nparams, maxparams, heap, name, v,
                                       oom = "resize"))

AddString ==
    \E name \in AddNames, v \in NativeStrings, oom \in OomPoints :
        Added("add",
              virTypedParamsAddString(params, nparams, maxparams, heap, name, v,
                                      oom = "resize", oom = "copy",
                                      oom = "empty"))

AddFromString ==
    \E name \in AddNames, type \in Tags, v \in Texts :
      \E oom \in IF type = VIR_TYPED_PARAM_STRING
                  THEN {"none", "resize", "copy"} ELSE {"none", "resize"} :
        Added("addFromString",
              virTypedParamsAddFromString(params, nparams, maxparams, heap, name,
                                          type, v, oom = "resize",
                                          oom = "copy"))

\* virTypedParamsGet called directly: out is the index found (0: NULL).
Get ==
    \E name \in LookupNames :
        /\ call' = [NoCall EXCEPT !.op = "get",
                       !.out = virTypedParamsGet(params, nparams, name)]
        /\ lastErr' = LastErrorOfGet(lastErr)
        /\ UNCHANGED <<params, nparams, maxparams, heap, schema>>

\* A typed reader has run with result r.
Read(r) ==
    /\ call' = [NoCall EXCEPT !.op = "read", !.ret = r.ret,
                              !.written = r.written, !.out = r.out,
                              !.dispatched = r.dispatched]
    /\ lastErr' = LastErrorOfReader(lastErr, r)
    /\ UNCHANGED <<params, nparams, maxparams, heap, schema>>

\* virTypedParamsGetBoolean has run with result r.
ReadBoolean(r) ==
    /\ call' = [NoCall EXCEPT !.op = "read", !.ret = r.ret,
                              !.written = r.written, !.out = r.out,
                              !.dispatched = r.dispatched]
    /\ lastErr' = LastErrorOfGetBoolean(lastErr, r)
    /\ UNCHANGED <<params, nparams, maxparams, heap, schema>>

GetInt ==
    \E name \in LookupNames, hasOut \in BOOLEAN :
        Read(virTypedParamsGetInt(params, nparams, name, hasOut))

GetUInt ==
    \E name \in LookupNames, hasOut \in BOOLEAN :
        Read(virTypedParamsGetUInt(params, nparams, name, hasOut))

GetLLong ==
    \E name \in LookupNames, hasOut \in BOOLEAN :
        Read(virTypedParamsGetLLong(params, nparams, name, hasOut))

GetULLong ==
    \E name \in LookupNames, hasOut \in BOOLEAN :
        Read(virTypedParamsGetULLong(params, nparams, name, hasOut))

GetDouble ==
    \E name \in LookupNames, hasOut \in BOOLEAN :
        Read(virTypedParamsGetDouble(params, nparams, name, hasOut))

GetBoolean ==
    \E name \in LookupNames, hasOut \in BOOLEAN :
        ReadBoolean(virTypedParamsGetBoolean(params, nparams, name, hasOut))

GetString ==
    \E name \in LookupNames, hasOut \in BOOLEAN :
        Read(virTypedParamsGetString(params, nparams, name, hasOut))

\* The appenders alone: they are the only calls that change a collection.
NextAdd ==
    \/ AddInt \/ AddUInt \/ AddLLong \/ AddULLong \/ AddDouble
    \/ AddBoolean \/ AddString \/ AddFromString

SpecAdd == Init /\ [][NextAdd]_vars

\* The appenders, the lookup and the typed readers.
Next ==
    \/ AddInt \/ AddUInt \/ AddLLong \/ AddULLong \/ AddDouble
    \/ AddBoolean \/ AddString \/ AddFromString
    \/ Get
    \/ GetInt \/ GetUInt \/ GetLLong \/ GetULLong \/ GetDouble
    \/ GetBoolean \/ GetString

Spec == Init /\ [][Next]_vars

\* virTypedParamsFree on the collection.  The array is gone afterwards,
\* and the caller starts over from the empty collection.  out is the
\* number of strings handed to free().
Free ==
    LET c == virTypedParamsFree(params, nparams, heap)
    IN /\ params' = c.params
       /\ nparams' = 0
       /\ maxparams' = 0
       /\ heap' = c.heap
       /\ call' = [NoCall EXCEPT !.op = "free", !.out = Len(c.released)]
       /\ UNCHANGED <<lastErr, schema>>

\* The appenders and the release of the collection.
NextFree ==
    \/ AddInt \/ AddUInt \/ AddLLong \/ AddULLong \/ AddDouble
    \/ AddBoolean \/ AddString \/ AddFromString
    \/ Free

SpecFree == Init /\ [][NextFree]_vars

(* ------------------------------------------------------------------ *)
(* The validator on arbitrary parameter arrays                         *)
(* ------------------------------------------------------------------ *)

\* The arrays and schemas given to the validator: the caller fills the
\* array itself, so names may repeat and every name/type mix occurs.
ValidateNames == {NameA, NameUpperA}
ValidateTypes == {VIR_TYPED_PARAM_INT, VIR_TYPED_PARAM_UINT}

SeqsUpTo(S, n) == UNION {[1 .. k -> S] : k \in 0 .. n}

ValidateSlots ==
    {[field |-> f, type |-> t, arm |-> t, value |-> 0] :
        f \in ValidateNames, t \in ValidateTypes}

SchemaEntries == {[name |-> f, type |-> t] : f \in ValidateNames, t \in ValidateTypes}

InitValidate ==
    /\ params \in SeqsUpTo(ValidateSlots, MaxValidate)
    /\ nparams = Len(params)
    /\ maxparams = Len(params)
    /\ heap = EmptyHeap
    /\ lastErr \in {"none", "oom"}
    /\ schema \in SeqsUpTo(SchemaEntries, MaxSchema)
    /\ call = NoCall

Validate ==
    LET r == virTypedParameterArrayValidate(params, nparams, schema)
    IN /\ call' = [NoCall EXCEPT !.op = "validate", !.ret = r.ret]
       /\ lastErr' = IF r.rep.err = "none" THEN lastErr ELSE r.rep.err
       /\ UNCHANGED <<params, nparams, maxparams, heap, schema>>

NextValidate == Validate

SpecValidate == InitValidate /\ [][NextValidate]_vars

(* ------------------------------------------------------------------ *)
(* The assignment primitives on a slot the caller owns                 *)
(* ------------------------------------------------------------------ *)

\* The caller holds an array of one zero-filled slot and fills or refills
\* it directly through virTypedParameterAssign and
\* virTypedParameterAssignFromStr, releasing a string it holds through
\* virTypedParamsClear before the slot is filled again.
InitAssign ==
    /\ params = <<ZeroSlot>>
    /\ nparams = 1
    /\ maxparams = 1
    /\ heap = EmptyHeap
    /\ lastErr = "none"
    /\ schema = << >>
    /\ call = NoCall

\* The spellings given to the parser of the boolean variant: "true",
\* "TRUE", "True", "false", "FALSE", "1", "0", "maybe", "", "01", "yes",
\* "tru", "10", "true " and "2".
BoolTexts ==
    { <<116, 114, 117, 101>>, <<84, 82, 85, 69>>, <<84, 114, 117, 101>>,
      <<102, 97, 108, 115, 101>>, <<70, 65, 76, 83, 69>>,
      <<49>>, <<48>>,
      <<109, 97, 121, 98, 101>>, << >>, <<48, 49>>, <<121, 101, 115>>,
      <<116, 114, 117>>, <<49, 48>>, <<116, 114, 117, 101, 32>>, <<50>> }

\* The numbers given to virTypedParameterAssign for a tag; a tag out of
\* range reads no argument.
AssignValues(type) ==
    IF type \in Kinds \ {VIR_TYPED_PARAM_STRING} THEN NativeValues(type) ELSE {0}

\* The texts given to virTypedParameterAssignFromStr for a tag.
AssignTexts(type) ==
    IF type = VIR_TYPED_PARAM_BOOLEAN THEN BoolTexts \cup {NULL} ELSE Texts

\* The slot's union holds the address of a string that is still
\* allocated; the caller does not fill such a slot again before clearing.
HoldsString(param, h) ==
    param.arm = VIR_TYPED_PARAM_STRING /\ param.value # 0 /\ h[param.value].live

\* Variant: the primitive clears the last-error slot on entry.
Assigned_resetting(op, i, a, h) ==
    /\ params' = [params EXCEPT ![i] = a.param]
    /\ heap' = h
    /\ lastErr' = a.err
    /\ call' = [NoCall EXCEPT !.op = op, !.ret = a.ret]
    /\ UNCHANGED <<nparams, maxparams, schema>>

\* A primitive has run on slot i with result a.  The primitives report
\* into the last-error slot and never reset it.
Assigned(op, i, a, h) ==
    /\ params' = [params EXCEPT ![i] = a.param]
    /\ heap' = h
    /\ lastErr' = IF a.err = "none" THEN lastErr ELSE a.err
    /\ call' = [NoCall EXCEPT !.op = op, !.ret = a.ret]
    /\ UNCHANGED <<nparams, maxparams, schema>>

\* virTypedParameterAssign on slot i with a native number.
AssignNative ==
    \E i \in 1 .. nparams, name \in AddNames,
       type \in Tags \ {VIR_TYPED_PARAM_STRING} :
      \E v \in AssignValues(type) :
        LET a == virTypedParameterAssign(params[i], name, type, v, heap, FALSE)
        IN /\ ~HoldsString(params[i], heap)
           /\ Assigned("assign", i, a, a.heap)

\* virTypedParameterAssign on slot i with a string the caller allocated,
\* or with NULL.  The string stays the caller's when the call fails, and
\* the caller releases it.
AssignString ==
    \E i \in 1 .. nparams, name \in AddNames, v \in NativeStrings,
       oom \in BOOLEAN :
        LET d == IF v = NULL THEN [ptr |-> 0, heap |-> heap]
                 ELSE strdup(heap, v, FALSE)
            a == virTypedParameterAssign(params[i], name,
                                         VIR_TYPED_PARAM_STRING, d.ptr,
                                         d.heap, oom)
        IN /\ ~HoldsString(params[i], heap)
           /\ v # NULL => (d.ptr # 0 /\ ~oom)
           /\ Assigned("assign", i, a,
                       IF a.ret < 0 THEN VIR_FREE(a.heap, d.ptr) ELSE a.heap)

\* virTypedParameterAssignFromStr on slot i.
AssignFromStr ==
    \E i \in 1 .. nparams, name \in AddNames, type \in Tags :
      \E v \in AssignTexts(type),
         oom \in IF type = VIR_TYPED_PARAM_STRING THEN BOOLEAN ELSE {FALSE} :
        LET a == virTypedParameterAssignFromStr(params[i], name, type, v,
                                                heap, oom)
        IN /\ ~HoldsString(params[i], heap)
           /\ Assigned("assignFromStr", i, a, a.heap)

\* virTypedParamsClear on the caller's array.
Clear ==
    LET c == virTypedParamsClear(params, nparams, heap)
    IN /\ params' = c.params
       /\ heap' = c.heap
       /\ call' = [NoCall EXCEPT !.op = "clear", !.out = Len(c.released)]
       /\ UNCHANGED <<nparams, maxparams, lastErr, schema>>

NextAssign == AssignNative \/ AssignString \/ AssignFromStr \/ Clear

SpecAssign == InitAssign /\ [][NextAssign]_vars

(* ------------------------------------------------------------------ *)
(* The last-error slot across calls on a caller-filled slot            *)
(* ------------------------------------------------------------------ *)

\* The schemas of no entry and of one entry.
UnitSchemas == {<< >>} \cup {<<e>> : e \in SchemaEntries}

\* virTypedParameterArrayValidate on the caller's array with a schema
\* given in the call.
ValidateWith ==
    \E sch \in UnitSchemas :
        LET r == virTypedParameterArrayValidate(params, nparams, sch)
        IN /\ call' = [NoCall EXCEPT !.op = "validate", !.ret = r.ret]
           /\ lastErr' = IF r.rep.err = "none" THEN lastErr ELSE r.rep.err
           /\ UNCHANGED <<params, nparams, maxparams, heap, schema>>

\* The primitives, the lookup, the typed readers and the validator, each
\* finding in the last-error slot what the call before left there.
NextErr ==
    \/ AssignNative \/ AssignString \/ AssignFromStr \/ Clear
    \/ Get
    \/ GetInt \/ GetUInt \/ GetLLong \/ GetULLong \/ GetDouble
    \/ GetBoolean \/ GetString
    \/ ValidateWith

SpecErr == InitAssign /\ [][NextErr]_vars

(* ------------------------------------------------------------------ *)
(* Every call that can be made in the current state                    *)
(* ------------------------------------------------------------------ *)

\* add_<kind> of a non-string kind on the current collection.
NativeAdd(kind, name, v, oomResize) ==
    CASE kind = VIR_TYPED_PARAM_INT ->
             virTypedParamsAddInt(params, nparams, maxparams, heap, name, v, oomResize)
      [] kind = VIR_TYPED_PARAM_UINT ->
             virTypedParamsAddUInt(params, nparams, maxparams, heap, name, v, oomResize)
      [] kind = VIR_TYPED_PARAM_LLONG ->
             virTypedParamsAddLLong(params, nparams, maxparams, heap, name, v, oomResize)
      [] kind = VIR_TYPED_PARAM_ULLONG ->
             virTypedParamsAddULLong(params, nparams, maxparams, heap, name, v, oomResize)
      [] kind = VIR_TYPED_PARAM_DOUBLE ->
             virTypedParamsAddDouble(params, nparams, maxparams, heap, name, v, oomResize)
      [] kind = VIR_TYPED_PARAM_BOOLEAN ->
             virTypedParamsAddBoolean(params, nparams, maxparams, heap, name, v, oomResize)

\* Q(op, name, type, value, text, r) holds of every appender call the
\* actions can make in the current state, r being what the call leaves:
\* op is "add" for add_<kind> and "addFromString" for add_from_text,
\* value the native number (0 when the input is a string), text the
\* native string or the text to parse (NULL when the input is a number).
ForEveryAdd(Q(_, _, _, _, _, _)) ==
    /\ \A kind \in Kinds \ {VIR_TYPED_PARAM_STRING}, name \in AddNames,
          oom \in BOOLEAN :
          \A v \in NativeValues(kind) :
              Q("add", name, kind, v, NULL, NativeAdd(kind, name, v, oom))
    /\ \A name \in AddNames, v \in NativeStrings, oom \in OomPoints :
          Q("add", name, VIR_TYPED_PARAM_STRING, 0, v,
            virTypedParamsAddString(params, nparams, maxparams, heap, name, v,
                                    oom = "resize", oom = "copy", oom = "empty"))
    /\ \A name \in AddNames, type \in Tags, v \in Texts,
          oom \in {"none", "resize", "copy"} :
          Q("addFromString", name, type, 0, v,
            virTypedParamsAddFromString(params, nparams, maxparams, heap, name,
                                        type, v, oom = "resize", oom = "copy"))

AddOps == {"add", "addFromString"}

(* ------------------------------------------------------------------ *)
(* C1                                                                  *)
(* ------------------------------------------------------------------ *)

\* What the validator is documented to accept: every parameter's name is
\* in the schema, the first schema entry of that name has the
\* parameter's type, and no two parameters share a name.
ValidParams ==
    /\ \A i \in 1 .. nparams :
          /\ \E k \in 1 .. Len(schema) : schema[k].name = params[i].field
          /\ LET k == CHOOSE k \in 1 .. Len(schema) :
                         /\ schema[k].name = params[i].field
                         /\ \A l \in 1 .. k - 1 : schema[l].name # params[i].field
             IN schema[k].type = params[i].type
    /\ \A i, j \in 1 .. nparams : i # j => params[i].field # params[j].field

\* C1: validate returns 0 iff every parameter's name is in the schema with
\* the type of the first schema entry of that name and no name repeats;
\* in particular it returns non-zero when some type differs.
C1_ValidateIffValid ==
    call.op = "validate" => (call.ret = 0 <=> ValidParams)

(* ------------------------------------------------------------------ *)
(* C2                                                                  *)
(* ------------------------------------------------------------------ *)

C2_Holds(op, name, type, value, text, r) ==
    r.ret = 0 =>
        LET i == virTypedParamsGet(r.params, r.nparams, name)
        IN /\ i # 0
           /\ r.params[i].field = name
           /\ r.params[i].type = type
           /\ r.nparams = nparams + 1

\* C2: after any successful add_<kind> or add_from_text of name n with
\* type T, find(C, n) returns a slot named n of type T and count is one
\* greater than before the call.
C2_AddThenFind == ForEveryAdd(C2_Holds)

\* A text append has succeeded as the second entry and a lookup of its
\* name finds it with the string tag.
C2_Witness ==
    /\ call.op = "addFromString" /\ call.ret = 0
    /\ nparams = 2
    /\ virTypedParamsGet(params, nparams, NameUpperA) = 2
    /\ params[2].type = VIR_TYPED_PARAM_STRING

(* ------------------------------------------------------------------ *)
(* C3                                                                  *)
(* ------------------------------------------------------------------ *)

C3_Holds(op, name, type, value, text, r) ==
    r.ret = -1 =>
        /\ r.nparams = nparams
        /\ (virTypedParamsGet(params, nparams, name) = 0
               => virTypedParamsGet(r.params, r.nparams, name) = 0)
        /\ \A n \in LookupNames :
               virTypedParamsGet(r.params, r.nparams, n)
                   = virTypedParamsGet(params, nparams, n)

\* C3: after any failing add_<kind> or add_from_text, count is unchanged
\* and find returns absent for the attempted name unless it existed
\* before; the partially written slot at index count is not visible to
\* any lookup.
C3_FailedAddInvisible == ForEveryAdd(C3_Holds)

\* A text append of "a" has failed after writing the name into the slot
\* at index count, and "a" is still absent.
C3_Witness ==
    /\ call.op = "addFromString" /\ call.ret = -1
    /\ Len(params) > nparams
    /\ params[nparams + 1].field = NameA
    /\ virTypedParamsGet(params, nparams, NameA) = 0

(* ------------------------------------------------------------------ *)
(* C4                                                                  *)
(* ------------------------------------------------------------------ *)

\* The live entries of a collection, string payloads by content.
LiveEntries(P, n, h) ==
    [i \in 1 .. n |->
        [field |-> P[i].field, type |-> P[i].type,
         value |-> IF P[i].type = VIR_TYPED_PARAM_STRING
                   THEN StrAt(h, P[i].value) ELSE <<P[i].value>>]]

\* C4 as claimed: whenever a mutator returns -1, the live entries, count
\* and capacity are all as before the call.
C4_Transactional ==
    [][(call'.op \in AddOps /\ call'.ret = -1) =>
          /\ LiveEntries(params', nparams', heap') = LiveEntries(params, nparams, heap)
          /\ nparams' = nparams
          /\ maxparams' = maxparams]_vars

C4_Holds(op, name, type, value, text, r) ==
    r.ret = -1 =>
        /\ LiveEntries(r.params, r.nparams, r.heap) = LiveEntries(params, nparams, heap)
        /\ r.nparams = nparams
        /\ r.heap = heap
        /\ r.maxparams = Len(r.params)
        /\ r.maxparams >= maxparams
        /\ (r.maxparams # maxparams =>
               /\ Len(r.params) > Len(params)
               /\ r.err # "invalid_arg" \/ virTypedParamsGet(params, nparams, name) = 0)

\* C4 amended: whenever a mutator returns -1, the live entries, the owned
\* strings and count are as before the call; capacity is as before
\* unless the array was grown before the failure, and then it reports the
\* grown allocation.
C4_TransactionalButCapacity == ForEveryAdd(C4_Holds)

\* An append has failed in the initializer after the array was grown:
\* capacity exceeds count and the slot at index count is half written.
C4_Witness ==
    /\ call.op \in AddOps /\ call.ret = -1
    /\ lastErr \in {"invalid_arg", "internal"}
    /\ nparams = 1 /\ maxparams = 2
    /\ params[2].type # 0

(* ------------------------------------------------------------------ *)
(* C5                                                                  *)
(* ------------------------------------------------------------------ *)

C5_Holds(op, name, type, value, text, r) ==
    virTypedParamsGet(params, nparams, name) # 0 =>
        /\ r.ret = -1
        /\ r.err = "invalid_arg"
        /\ r.params = params
        /\ r.nparams = nparams
        /\ r.maxparams = maxparams
        /\ r.heap = heap

\* C5: if an entry named n exists, every add_<kind>(C, n, .) and
\* add_from_text(C, n, ., .) returns -1 with invalid-argument recorded and
\* changes nothing: entries, count, capacity and array are as before.
C5_DuplicateRejected == ForEveryAdd(C5_Holds)

\* A native append of an existing name has failed on a full array, which
\* was not grown.
C5_Witness ==
    /\ call.op = "add" /\ call.ret = -1
    /\ lastErr = "invalid_arg"
    /\ nparams >= 1 /\ nparams = maxparams /\ Len(params) = nparams

(* ------------------------------------------------------------------ *)
(* C6                                                                  *)
(* ------------------------------------------------------------------ *)

\* What a successful read gave out: a string by content, a number as is.
ReadValue(kind, g, h) ==
    IF kind = VIR_TYPED_PARAM_STRING THEN StrAt(h, g.out) ELSE <<g.out>>

C6_Holds(op, name, type, value, text, r) ==
    /\ (op = "add" /\ r.ret = 0) =>
          LET g == Reader(type, r.params, r.nparams, name, TRUE)
          IN /\ g.ret = 1
             /\ g.written
             /\ type \notin {VIR_TYPED_PARAM_STRING, VIR_TYPED_PARAM_BOOLEAN}
                   => g.out = value
             /\ (type = VIR_TYPED_PARAM_BOOLEAN /\ value \in {0, 1})
                   => g.out = value
             /\ (type = VIR_TYPED_PARAM_STRING /\ text # NULL)
                   => /\ g.out # 0
                      /\ ~heap[g.out].live
                      /\ r.heap[g.out].live
                      /\ StrAt(r.heap, g.out) = text
    /\ \A i \in 1 .. nparams :
          LET before == Reader(params[i].type, params, nparams,
                               params[i].field, TRUE)
              after == Reader(params[i].type, r.params, r.nparams,
                              params[i].field, TRUE)
          IN /\ before.ret = 1
             /\ after.ret = 1
             /\ ReadValue(params[i].type, after, r.heap)
                    = ReadValue(params[i].type, before, heap)

\* C6: for each non-string kind K and value v of the kind (0 or 1 for the
\* boolean kind), after a successful add_K(C, n, v) get_K(C, n, &out)
\* returns 1 with out = v; for the string kind the reader gives a view of
\* a fresh copy whose content is the added string.  Every later add,
\* failing or not, leaves what each live entry reads as unchanged.
C6_RoundTrip == ForEveryAdd(C6_Holds)

\* The first entry, a llong added as -9, has been read back as -9 after
\* a second entry was added.
C6_Witness ==
    /\ call.op = "read" /\ call.ret = 1 /\ call.written /\ call.out = -9
    /\ nparams = 2
    /\ params[1].type = VIR_TYPED_PARAM_LLONG

(* ------------------------------------------------------------------ *)
(* C7                                                                  *)
(* ------------------------------------------------------------------ *)

\* The live entries named n, and those of them of kind K.
Named(n) == {i \in 1 .. nparams : params[i].field = n}
NamedOfKind(n, K) == {i \in Named(n) : params[i].type = K}

C7_ReaderCase(K, n, hasOut) ==
    LET g == Reader(K, params, nparams, n, hasOut)
    IN /\ g.ret \in {1, 0, -1}
       /\ g.ret = 1 <=> NamedOfKind(n, K) # {}
       /\ g.ret = 0 <=> Named(n) = {}
       /\ g.ret = -1 <=> (Named(n) # {} /\ NamedOfKind(n, K) = {})
       /\ g.ret = 1 =>
             /\ g.err = "none"
             /\ g.written = hasOut
             /\ hasOut => \E i \in NamedOfKind(n, K) :
                              g.out = IF K = VIR_TYPED_PARAM_BOOLEAN
                                      THEN (IF params[i].value # 0 THEN 1 ELSE 0)
                                      ELSE params[i].value
       /\ g.ret = 0 => (g.err = "none" /\ ~g.written)
       /\ g.ret = -1 => (g.err = "invalid_arg" /\ ~g.written)
       /\ g.ret = Reader(K, params, nparams, n, ~hasOut).ret

C7_AfterAdd(op, name, type, value, text, r) ==
    (op = "add" /\ r.ret = 0) =>
        \A Y \in Kinds \ {type} :
            Reader(Y, r.params, r.nparams, name, TRUE).ret = -1

\* C7: for every reader get_K, collection and name n the result is 1 iff
\* an entry named n of type K exists (its value is copied out when an
\* out-parameter is given), 0 iff no entry named n exists (no error
\* recorded), -1 iff an entry named n exists with another type
\* (invalid-argument recorded, out-parameter untouched).  After
\* add_X(C, n, v) every get_Y, Y # X, returns -1, and a null
\* out-parameter never changes the result code.
C7_ReaderTriState ==
    /\ \A K \in Kinds, n \in LookupNames, hasOut \in BOOLEAN :
          C7_ReaderCase(K, n, hasOut)
    /\ ForEveryAdd(C7_AfterAdd)
    /\ call.op = "read" =>
          /\ call.ret = 0 => (lastErr = "none" /\ ~call.written)
          /\ call.ret = 1 => lastErr = "none"
          /\ call.ret = -1 => (lastErr = "invalid_arg" /\ ~call.written)

\* A reader has found its entry with another type: -1, invalid-argument,
\* nothing stored.
C7_Witness ==
    /\ call.op = "read" /\ call.ret = -1
    /\ lastErr = "invalid_arg" /\ ~call.written
    /\ nparams = 1

(* ------------------------------------------------------------------ *)
(* C8                                                                  *)
(* ------------------------------------------------------------------ *)

\* C8: in every state reachable from the empty collection by add_<kind>
\* and add_from_text calls, no two live entries have the same name
\* (case-sensitive).
C8_UniqueNames ==
    \A i, j \in 1 .. nparams : i # j => params[i].field # params[j].field

\* Names differing only in case are both live.
C8_Witness ==
    /\ nparams = 2
    /\ params[1].field = NameA
    /\ params[2].field = NameUpperA
    /\ call.op \in AddOps /\ call.ret = 0

(* ------------------------------------------------------------------ *)
(* C9                                                                  *)
(* ------------------------------------------------------------------ *)

C9_Holds(op, name, type, value, text, r) ==
    /\ r.nparams <= r.maxparams
    /\ r.ret = 0 =>
          /\ nparams < r.maxparams
          /\ r.maxparams <= Len(r.params)
          /\ r.params[nparams + 1].field = name

\* C9: count <= capacity in every state reachable by add operations, also
\* after failing adds and after growth, and a successful add writes the
\* new entry at an index strictly below the capacity reported back.
C9_CountWithinCapacity ==
    /\ nparams <= maxparams
    /\ maxparams <= Len(params)
    /\ ForEveryAdd(C9_Holds)

\* The array has been grown twice and is full.
C9_Witness ==
    /\ call.op \in AddOps /\ call.ret = 0
    /\ nparams = 2 /\ maxparams = 2

(* ------------------------------------------------------------------ *)
(* C10                                                                 *)
(* ------------------------------------------------------------------ *)

\* C10 as claimed: every failing mutator calls virDispatchError exactly
\* once, after recording its error, and the typed readers never call it.
C10_ReadersNeverDispatch ==
    /\ (call.op \in AddOps /\ call.ret = -1) =>
          (lastErr # "none" /\ call.dispatched = <<lastErr>>)
    /\ call.op = "read" => call.dispatched = << >>

\* C10 amended: every failing mutator calls virDispatchError exactly once,
\* after recording its error; a typed reader calls it exactly once, after
\* recording invalid-argument, when it returns -1 for a type mismatch,
\* and not otherwise; no successful call and no lookup calls it.
C10_DispatchOnFailure ==
    /\ (call.op \in AddOps /\ call.ret = -1) =>
          (lastErr # "none" /\ call.dispatched = <<lastErr>>)
    /\ (call.op \in AddOps /\ call.ret = 0) => call.dispatched = << >>
    /\ (call.op = "read" /\ call.ret = -1) =>
          (lastErr = "invalid_arg" /\ call.dispatched = <<"invalid_arg">>)
    /\ (call.op = "read" /\ call.ret # -1) => call.dispatched = << >>
    /\ call.op = "get" => call.dispatched = << >>

\* A reader has returned -1 and dispatched its error.
C10_Witness ==
    /\ call.op = "read" /\ call.ret = -1
    /\ call.dispatched = <<"invalid_arg">>
    /\ nparams = 2

(* ------------------------------------------------------------------ *)
(* Every direct assignment that can be made in the current state       *)
(* ------------------------------------------------------------------ *)

\* virTypedParameterAssign as a caller makes it: for the string tag the
\* caller allocates s (unless it is NULL) and passes its address.
DirectAssign(param, name, type, v, s, oom) ==
    IF type = VIR_TYPED_PARAM_STRING
    THEN LET d == IF s = NULL THEN [ptr |-> 0, heap |-> heap]
                  ELSE strdup(heap, s, FALSE)
         IN virTypedParameterAssign(param, name, type, d.ptr, d.heap, oom)
    ELSE virTypedParameterAssign(param, name, type, v, heap, oom)

\* Q(op, i, name, type, value, text, oom, a) holds of every direct call
\* of a primitive on a slot of the current array, a being its result: op
\* is "assign" or "assignFromStr", value the native number, text the
\* native string or the text to parse, oom whether the allocation the
\* call makes, if any, fails.
ForEveryAssign(Q(_, _, _, _, _, _, _, _)) ==
    /\ \A i \in 1 .. nparams, name \in AddNames, type \in Tags,
          oom \in BOOLEAN :
          IF type = VIR_TYPED_PARAM_STRING
          THEN \A t \in NativeStrings :
                  (t # NULL => ~\A c \in 1 .. HeapSize : heap[c].live) =>
                  Q("assign", i, name, type, 0, t, oom,
                    DirectAssign(params[i], name, type, 0, t, oom))
          ELSE \A v \in AssignValues(type) :
                  Q("assign", i, name, type, v, NULL, oom,
                    DirectAssign(params[i], name, type, v, NULL, oom))
    /\ \A i \in 1 .. nparams, name \in AddNames, type \in Tags,
          oom \in BOOLEAN :
          \A t \in AssignTexts(type) :
              Q("assignFromStr", i, name, type, 0, t, oom,
                virTypedParameterAssignFromStr(params[i], name, type, t,
                                               heap, oom))

\* Q(op, name, type, text, oomResize, oomCopy, r) holds of every
\* appender call on the current collection, r being what the call
\* leaves: oomResize says that the growth of the array fails, oomCopy
\* that the allocation of the string does.
ForEveryAddOom(Q(_, _, _, _, _, _, _)) ==
    /\ \A K \in Kinds \ {VIR_TYPED_PARAM_STRING}, name \in AddNames,
          oom \in BOOLEAN :
          \A v \in NativeValues(K) :
              Q("add", name, K, NULL, oom, FALSE, NativeAdd(K, name, v, oom))
    /\ \A name \in AddNames, t \in NativeStrings, oomResize \in BOOLEAN,
          oomCopy \in BOOLEAN :
          Q("add", name, VIR_TYPED_PARAM_STRING, t, oomResize, oomCopy,
            virTypedParamsAddString(params, nparams, maxparams, heap,
                                    name, t, oomResize, oomCopy, oomCopy))
    /\ \A name \in AddNames, type \in Tags, oomResize \in BOOLEAN,
          oomCopy \in BOOLEAN :
          \A t \in AssignTexts(type) :
              Q("addFromString", name, type, t, oomResize, oomCopy,
                virTypedParamsAddFromString(params, nparams, maxparams,
                                            heap, name, type, t,
                                            oomResize, oomCopy))

(* ------------------------------------------------------------------ *)
(* C11                                                                 *)
(* ------------------------------------------------------------------ *)

\* The text is a decimal number, with a sign when the kind has one.
IsNumber(text, signed) ==
    LET body == IF signed /\ Len(text) >= 1 /\ text[1] = 45
                THEN Tail(text) ELSE text
    IN Len(body) >= 1 /\ \A k \in 1 .. Len(body) : body[k] \in 48 .. 57

\* The text in lower case.
Lower(text) == [k \in 1 .. Len(text) |-> ToLower(text[k])]

\* The four spellings of a boolean.
SpellsTrue(text) == Lower(text) = <<116, 114, 117, 101>> \/ text = <<49>>
SpellsFalse(text) == Lower(text) = <<102, 97, 108, 115, 101>> \/ text = <<48>>

\* The text is a value of the kind.
TextParses(type, text) ==
    CASE type \in {VIR_TYPED_PARAM_INT, VIR_TYPED_PARAM_LLONG,
                   VIR_TYPED_PARAM_DOUBLE} -> IsNumber(text, TRUE)
      [] type \in {VIR_TYPED_PARAM_UINT, VIR_TYPED_PARAM_ULLONG} ->
             IsNumber(text, FALSE)
      [] type = VIR_TYPED_PARAM_BOOLEAN -> SpellsTrue(text) \/ SpellsFalse(text)
      [] OTHER -> TRUE

\* The error kinds the failure causes of a primitive call stand for.
AssignCauses(op, name, type, text, oom) ==
    (IF Len(name) >= FieldLength THEN {"internal"} ELSE {})
    \cup (IF type \notin Kinds THEN {"internal"} ELSE {})
    \cup (IF op = "assignFromStr" /\ text = NULL THEN {"invalid_arg"} ELSE {})
    \cup (IF op = "assignFromStr" /\ text # NULL /\ type \in Kinds
             /\ ~TextParses(type, text)
          THEN {"invalid_arg"} ELSE {})
    \cup (IF type = VIR_TYPED_PARAM_STRING /\ oom
             /\ (op = "assignFromStr" \/ text = NULL)
          THEN {"oom"} ELSE {})

C11_Assign(op, i, name, type, value, text, oom, a) ==
    /\ a.ret \in {0, -1}
    /\ a.ret = -1 => a.err \in AssignCauses(op, name, type, text, oom)
    /\ a.ret = 0 => (a.err = "none" /\ AssignCauses(op, name, type, text, oom) = {})

\* The error kinds the failure causes of an appender call stand for.
AddCauses(op, name, type, text, oomResize, oomCopy) ==
    (IF \E i \in 1 .. nparams : params[i].field = name
     THEN {"invalid_arg"} ELSE {})
    \cup (IF oomResize /\ nparams + 1 > maxparams THEN {"oom"} ELSE {})
    \cup (IF op = "add" /\ type = VIR_TYPED_PARAM_STRING /\ oomCopy
          THEN {"oom"} ELSE {})
    \cup AssignCauses(IF op = "add" THEN "assign" ELSE "assignFromStr",
                      name, type, text, oomCopy)

C11_AddCase(op, name, type, text, oomResize, oomCopy, r) ==
    /\ r.ret \in {0, -1}
    /\ r.ret = -1 => r.err \in AddCauses(op, name, type, text, oomResize, oomCopy)
    /\ r.ret = 0 =>
          (r.err = "none" /\ AddCauses(op, name, type, text, oomResize, oomCopy) = {})

C11_Add == ForEveryAddOom(C11_AddCase)

C11_Read ==
    \A K \in Kinds, n \in LookupNames, hasOut \in BOOLEAN :
        LET g == Reader(K, params, nparams, n, hasOut)
        IN /\ g.ret = -1 =>
                 /\ g.err = "invalid_arg"
                 /\ \E i \in 1 .. nparams :
                        params[i].field = n /\ params[i].type # K
           /\ g.ret # -1 => g.err = "none"

\* Arrays of two parameters a caller has filled.
PairArrays == {<<x, y>> : x \in ValidateSlots, y \in ValidateSlots}

C11_Validate ==
    \A P \in PairArrays \cup {params}, sch \in UnitSchemas :
        LET r == virTypedParameterArrayValidate(P, Len(P), sch)
        IN /\ r.ret \in {0, -1}
           /\ r.ret = -1 =>
                 /\ r.rep.err = "invalid_arg"
                 /\ \/ \E i \in 1 .. Len(P) :
                          \A k \in 1 .. Len(sch) : sch[k].name # P[i].field
                    \/ \E i, j \in 1 .. Len(P) :
                          i # j /\ P[i].field = P[j].field

\* C11: every entry point that returns -1 (validate, assign,
\* assign_from_text, every get_<kind>, every add_<kind>, add_from_text)
\* has recorded an error during the call, of the kind of a failure cause
\* that is present: invalid-argument for a duplicate name, a type
\* mismatch, an unsupported name, a null or unparseable text;
\* out-of-memory for a failed allocation; internal-error for a name too
\* long and for an unknown tag.  A call with no cause present returns 0.
C11_ErrorKinds ==
    /\ ForEveryAssign(C11_Assign)
    /\ C11_Add
    /\ C11_Read
    /\ C11_Validate
    /\ (call.op \in {"assign", "assignFromStr"} /\ call.ret = -1) =>
          lastErr \in {"invalid_arg", "oom", "internal"}

\* assign_from_text has failed on an unknown tag and internal-error is
\* recorded.
C11_Witness ==
    /\ call.op = "assignFromStr" /\ call.ret = -1
    /\ lastErr = "internal"
    /\ params[1].type = VIR_TYPED_PARAM_LAST

(* ------------------------------------------------------------------ *)
(* C12                                                                 *)
(* ------------------------------------------------------------------ *)

\* The name does not fit the bounded field.
TooLong(name) == Len(name) > FieldLength - 1

\* The non-empty prefixes of a name.
PrefixesOf(name) == {SubSeq(name, 1, k) : k \in 1 .. Len(name)}

C12_Assign(op, i, name, type, value, text, oom, a) ==
    TooLong(name) =>
        /\ a.ret = -1
        /\ a.param = params[i]
        /\ a.heap = heap \/ (op = "assign" /\ text # NULL)
        /\ a.err = IF op = "assignFromStr" /\ text = NULL
                   THEN "invalid_arg" ELSE "internal"

C12_Add(op, name, type, text, oomResize, oomCopy, r) ==
    TooLong(name) =>
        /\ r.ret = -1
        /\ r.nparams = nparams
        /\ r.heap = heap
        /\ \A k \in 1 .. Len(r.params) :
               r.params[k] = IF k <= Len(params) THEN params[k] ELSE ZeroSlot
        /\ \A n \in PrefixesOf(name) :
               virTypedParamsGet(r.params, r.nparams, n)
                   = virTypedParamsGet(params, nparams, n)
        /\ r.err = IF oomResize /\ nparams + 1 > maxparams THEN "oom"
                   ELSE IF op = "add" /\ type = VIR_TYPED_PARAM_STRING
                           /\ text # NULL /\ oomCopy THEN "oom"
                   ELSE IF op = "addFromString" /\ text = NULL
                   THEN "invalid_arg"
                   ELSE "internal"

\* C12: a name longer than the field is never stored, whole or cut:
\* assign, assign_from_text and every add operation given such a name
\* fail and leave every slot as it was, count is not incremented and no
\* entry with a prefix of the name becomes findable.  The error is
\* internal-error whenever the name is what stops the call; a call that
\* has a second fault which the code meets first records that one: a
\* null text gives invalid-argument, a failed growth of the array or a
\* failed copy of the string gives out-of-memory.
C12_LongNameNeverStored ==
    /\ ForEveryAssign(C12_Assign)
    /\ ForEveryAddOom(C12_Add)
    /\ \A i \in 1 .. Len(params) : ~TooLong(params[i].field)

\* A direct assignment with the long name has failed with internal-error
\* on a slot that keeps its earlier name.
C12_Witness ==
    /\ call.op = "assign" /\ call.ret = -1
    /\ lastErr = "internal"
    /\ params[1].field = NameA
    /\ params[1].type \in Kinds

(* ------------------------------------------------------------------ *)
(* C13                                                                 *)
(* ------------------------------------------------------------------ *)

\* The slot holds an owned, allocated string whose content is what was
\* given, the empty string standing in for NULL.
OwnsStringFor(param, h, text) ==
    /\ param.type = VIR_TYPED_PARAM_STRING
    /\ param.value # 0
    /\ h[param.value].live
    /\ h[param.value].s = IF text = NULL THEN TextEmpty ELSE text

C13_Assign(op, i, name, type, value, text, oom, a) ==
    (type = VIR_TYPED_PARAM_STRING /\ a.ret = 0) =>
        /\ OwnsStringFor(a.param, a.heap, text)
        /\ ~heap[a.param.value].live
        /\ LET g == virTypedParamsGetString([params EXCEPT ![i] = a.param],
                                            nparams, name, TRUE)
           IN g.ret = 1 /\ g.written /\ g.out # 0

C13_Add(op, name, type, text, oomResize, oomCopy, r) ==
    (type = VIR_TYPED_PARAM_STRING /\ r.ret = 0) =>
        /\ OwnsStringFor(r.params[nparams + 1], r.heap, text)
        /\ ~heap[r.params[nparams + 1].value].live
        /\ LET g == virTypedParamsGetString(r.params, r.nparams, name, TRUE)
           IN g.ret = 1 /\ g.written /\ g.out # 0
                /\ StrAt(r.heap, g.out) = IF text = NULL THEN TextEmpty ELSE text

\* C13: after any successful assign, assign_from_text, add_string or
\* add_from_text of the string variant the slot's payload is a non-null
\* owned string with the content given; a null input to assign or
\* add_string is stored as a freshly made empty string, and get_string on
\* the entry returns 1 with a non-null view.
C13_StringNeverNull ==
    /\ ForEveryAssign(C13_Assign)
    /\ ForEveryAddOom(C13_Add)
    /\ (call.op \in {"assign", "assignFromStr"} /\ call.ret = 0) =>
          \A i \in 1 .. nparams :
              params[i].type = VIR_TYPED_PARAM_STRING =>
                  (params[i].value # 0 /\ heap[params[i].value].live)

\* assign has been given NULL for a string and the slot owns an empty
\* string.
C13_Witness ==
    /\ call.op = "assign" /\ call.ret = 0
    /\ OwnsStringFor(params[1], heap, NULL)

(* ------------------------------------------------------------------ *)
(* C14                                                                 *)
(* ------------------------------------------------------------------ *)

\* The live entries of the string variant, and the allocated cells.
StringEntries == {i \in 1 .. nparams : params[i].type = VIR_TYPED_PARAM_STRING}
LiveCells(h) == {c \in 1 .. HeapSize : h[c].live}

\* The addresses in a sequence, and whether none occurs twice.
Range(seq) == {seq[k] : k \in 1 .. Len(seq)}
NoRepeat(seq) == \A k, l \in 1 .. Len(seq) : k # l => seq[k] # seq[l]

C14_FailedAdd(op, name, type, value, text, r) ==
    /\ r.ret = -1 => r.heap = heap
    /\ r.ret = 0 =>
          /\ \A c \in LiveCells(heap) : r.heap[c] = heap[c]
          /\ LiveCells(r.heap) \ LiveCells(heap) =
                 IF type = VIR_TYPED_PARAM_STRING
                 THEN {r.params[nparams + 1].value} ELSE {}

\* C14: for any sequence of add operations followed by free, every string
\* the library allocated is released exactly once.  At every moment the
\* allocated strings are exactly the payloads of the live string entries,
\* each owned by one entry; a failing add leaves no allocation behind
\* (the copy a failing add_string made is released before it returns);
\* and free hands each live payload to free() once, none that is not
\* allocated, and leaves nothing allocated.
C14_NoLeakNoDoubleFree ==
    /\ \A i \in StringEntries : params[i].value \in LiveCells(heap)
    /\ \A i, j \in StringEntries : i # j => params[i].value # params[j].value
    /\ LiveCells(heap) = {params[i].value : i \in StringEntries}
    /\ ForEveryAdd(C14_FailedAdd)
    /\ LET c == virTypedParamsFree(params, nparams, heap)
       IN /\ NoRepeat(c.released)
          /\ Range(c.released) = LiveCells(heap)
          /\ c.heap = EmptyHeap
    /\ call.op = "free" => heap = EmptyHeap

\* free has released the two strings of a collection of two string
\* entries.
C14_Witness ==
    /\ call.op = "free" /\ call.out = 2
    /\ heap = EmptyHeap
    /\ params = << >>

(* ------------------------------------------------------------------ *)
(* C15                                                                 *)
(* ------------------------------------------------------------------ *)

\* The last call returned success: find, a reader with 1 or 0, a
\* primitive or the validator with 0.
Succeeded ==
    \/ call.op = "get"
    \/ call.op = "read" /\ call.ret \in {0, 1}
    \/ call.op \in {"assign", "assignFromStr", "validate"} /\ call.ret = 0

C15_Add(op, name, type, value, text, r) ==
    /\ r.ret = 0 => r.err = "none"
    /\ r.ret = -1 => r.err # "none"

\* C15 as claimed: every operation resets the last-error slot on entry,
\* so after any operation that returns success the slot is empty,
\* whatever was recorded before the call.
C15_ResetOnEntry ==
    /\ Succeeded => lastErr = "none"
    /\ ForEveryAdd(C15_Add)

\* The lookup, the typed readers and the appenders leave the slot empty
\* when they succeed, and every failing call leaves an error in it.
C15_PublicReset ==
    /\ call.op = "get" => lastErr = "none"
    /\ (call.op = "read" /\ call.ret \in {0, 1}) => lastErr = "none"
    /\ ForEveryAdd(C15_Add)
    /\ call.ret = -1 => lastErr # "none"

\* A step of assign or assign_from_text that returns 0 leaves the slot as
\* it found it; a step of validate that returns 0 leaves it as it found
\* it or holding the invalid-argument of a type mismatch it reported.
C15_PrimitiveStep ==
    /\ (call'.op \in {"assign", "assignFromStr"} /\ call'.ret = 0)
           => lastErr' = lastErr
    /\ (call'.op = "validate" /\ call'.ret = 0)
           => lastErr' \in {lastErr, "invalid_arg"}

\* C15 amended: find, every get_<kind> and every add operation reset the
\* last-error slot on entry, so after they succeed it is empty; assign,
\* assign_from_text and validate do not reset it: after they return 0 the
\* slot holds what it held before the call (for validate, possibly the
\* invalid-argument of a type mismatch it reported and went on from).
\* Every call that returns -1 leaves an error recorded.
C15_ResetByPublicCallsOnly ==
    /\ []C15_PublicReset
    /\ [][C15_PrimitiveStep]_vars

\* assign has succeeded and the slot still holds the internal-error of an
\* earlier failing call.
C15_Witness ==
    /\ call.op = "assign" /\ call.ret = 0
    /\ lastErr = "internal"
    /\ params[1].type \in Kinds

(* ------------------------------------------------------------------ *)
(* C16                                                                 *)
(* ------------------------------------------------------------------ *)

C16_Holds(op, name, type, value, text, r) ==
    /\ \A i \in 1 .. nparams :
          /\ r.params[i].field = params[i].field
          /\ r.params[i].type = params[i].type
          /\ r.params[i].value = params[i].value
          /\ params[i].type = VIR_TYPED_PARAM_STRING =>
                 r.heap[params[i].value] = heap[params[i].value]
    /\ r.ret = 0 =>
          /\ r.nparams = nparams + 1
          /\ r.params[nparams + 1].field = name
          /\ r.params[nparams + 1].type = type
    /\ r.ret = -1 => r.nparams = nparams

\* C16: a successful add places the new entry at the index equal to the
\* old count, and for every index below the old count the entry's name,
\* type and value are the same after the call as before, also when the
\* array is grown and also when the add fails: no add reorders or
\* overwrites a live entry.
C16_InsertionOrder == ForEveryAdd(C16_Holds)

\* A second entry has been appended behind a string entry, which is as it
\* was.
C16_Witness ==
    /\ call.op = "add" /\ call.ret = 0
    /\ nparams = 2
    /\ params[1].field = NameUpperA
    /\ params[1].type = VIR_TYPED_PARAM_STRING
    /\ StrAt(heap, params[1].value) = TextAbc
    /\ params[2].field = NameA
    /\ params[2].type = VIR_TYPED_PARAM_BOOLEAN

(* ------------------------------------------------------------------ *)
(* C17                                                                 *)
(* ------------------------------------------------------------------ *)

\* C17: in every state reachable through assign and assign_from_text,
\* also after a failing call on a slot that already holds a value, each
\* live slot's tag names the variant of the payload last stored in it.
C17_TagAgreesWithPayload ==
    \A i \in 1 .. nparams : params[i].type = params[i].arm

(* ------------------------------------------------------------------ *)
(* C18                                                                 *)
(* ------------------------------------------------------------------ *)

\* Some parameter's name is in no schema entry; some name occurs at two
\* indices.
Unsupported ==
    \E i \in 1 .. nparams :
        \A k \in 1 .. Len(schema) : schema[k].name # params[i].field
Repeated ==
    \E i, j \in 1 .. nparams : i # j /\ params[i].field = params[j].field

\* The schema entries of parameter i's name, the first of them, and
\* whether the parameter's type differs from that one's.
EntriesFor(i) == {k \in 1 .. Len(schema) : schema[k].name = params[i].field}
FirstEntryFor(i) == CHOOSE k \in EntriesFor(i) : \A l \in EntriesFor(i) : k <= l
Mismatched(i) ==
    EntriesFor(i) # {} /\ schema[FirstEntryFor(i)].type # params[i].type

\* C18: validate returns -1 with an invalid-argument error whenever some
\* parameter's name is in no schema entry or some name occurs twice, also
\* when an earlier or the same parameter has a type mismatch, as the scan
\* goes on after reporting one; otherwise it returns 0.  Only the first
\* schema entry of a name is consulted for the type: a mismatch is
\* reported exactly when a parameter's type differs from that entry's,
\* and the report names that entry's type as the expected one.
C18_ValidateRejects ==
    LET r == virTypedParameterArrayValidate(params, nparams, schema)
    IN /\ (Unsupported \/ Repeated) =>
              (r.ret = -1 /\ r.rep = PlainReport("invalid_arg"))
       /\ ~(Unsupported \/ Repeated) =>
              /\ r.ret = 0
              /\ r.rep.err = "invalid_arg" <=> \E i \in 1 .. nparams : Mismatched(i)
              /\ (\E i \in 1 .. nparams : Mismatched(i)) =>
                    LET last == CHOOSE i \in 1 .. nparams :
                                    /\ Mismatched(i)
                                    /\ \A j \in i + 1 .. nparams : ~Mismatched(j)
                    IN /\ r.rep.expected = virTypedParameterTypeToString(
                                               schema[FirstEntryFor(last)].type)
                       /\ r.rep.badtype = virTypedParameterTypeToString(
                                              params[last].type)
       /\ (call.op = "validate" /\ (Unsupported \/ Repeated)) =>
              (call.ret = -1 /\ lastErr = "invalid_arg")

\* validate has returned -1 for a name that occurs twice, having passed a
\* type mismatch at the first index; the schema has two entries of the
\* name.
C18_Witness ==
    /\ call.op = "validate" /\ call.ret = -1
    /\ lastErr = "invalid_arg"
    /\ nparams = 2
    /\ params[1].field = params[2].field
    /\ Len(schema) = 2
    /\ schema[1].name = params[1].field
    /\ schema[2].name = params[1].field
    /\ schema[1].type # params[1].type
    /\ schema[2].type = params[1].type

(* ------------------------------------------------------------------ *)
(* C19                                                                 *)
(* ------------------------------------------------------------------ *)

\* The integers given as booleans, and the truth value of one as 0 or 1.
BoolInputs == {-1, 0, 1, 2}
Truth(v) == IF v # 0 THEN 1 ELSE 0

\* add_boolean(C, n, v) then get_boolean(C, n, &out).
C19_AddThenGet ==
    \A name \in AddNames, v \in BoolInputs, oom \in BOOLEAN :
        LET r == virTypedParamsAddBoolean(params, nparams, maxparams, heap,
                                          name, v, oom)
            g == virTypedParamsGetBoolean(r.params, r.nparams, name, TRUE)
        IN r.ret = 0 =>
              /\ r.params[nparams + 1].type = VIR_TYPED_PARAM_BOOLEAN
              /\ r.params[nparams + 1].value = Truth(v)
              /\ g.ret = 1 /\ g.written /\ g.out = Truth(v)

\* assign of a boolean onto any slot of the array.
C19_Assign ==
    \A i \in 1 .. Len(params), name \in AddNames, v \in BoolInputs :
        LET a == virTypedParameterAssign(params[i], name,
                                         VIR_TYPED_PARAM_BOOLEAN, v, heap, FALSE)
        IN a.ret = 0 =>
              (a.param.type = VIR_TYPED_PARAM_BOOLEAN /\ a.param.value = Truth(v))

\* get_boolean on a boolean entry whose stored byte is w, whoever stored
\* it.
C19_Get ==
    \A i \in 1 .. nparams, w \in BoolInputs, hasOut \in BOOLEAN :
        LET P == [params EXCEPT ![i].type = VIR_TYPED_PARAM_BOOLEAN,
                                ![i].value = w]
            g == virTypedParamsGetBoolean(P, nparams, params[i].field, hasOut)
        IN virTypedParamsGet(P, nparams, params[i].field) = i =>
              /\ g.ret = 1
              /\ g.written = hasOut
              /\ hasOut => g.out = Truth(w)

\* C19: assign and add_boolean store true for every non-zero integer and
\* false for zero, get_boolean writes exactly 0 or 1, and
\* add_boolean(C, n, v); get_boolean(C, n, &out) gives out = 1 for every
\* v # 0 and out = 0 for v = 0.
C19_BooleanNormalized ==
    /\ C19_AddThenGet
    /\ C19_Assign
    /\ C19_Get
    /\ \A i \in 1 .. nparams :
          params[i].type = VIR_TYPED_PARAM_BOOLEAN => params[i].value \in {0, 1}
    /\ (call.op = "read" /\ call.written /\ nparams = 1
           /\ params[1].type = VIR_TYPED_PARAM_BOOLEAN) => call.out \in {0, 1}

\* get_boolean has read 1 from the only entry, a boolean.
C19_Witness ==
    /\ call.op = "read" /\ call.ret = 1 /\ call.written /\ call.out = 1
    /\ nparams = 1
    /\ params[1].type = VIR_TYPED_PARAM_BOOLEAN
    /\ params[1].value = 1

(* ------------------------------------------------------------------ *)
(* C20                                                                 *)
(* ------------------------------------------------------------------ *)

\* The names that fit the field.
ShortNames == {n \in AddNames : ~TooLong(n)}

\* assign_from_text of a boolean onto slot i.
C20_Assign ==
    \A i \in 1 .. nparams, name \in ShortNames, t \in BoolTexts :
        LET a == virTypedParameterAssignFromStr(params[i], name,
                                                VIR_TYPED_PARAM_BOOLEAN, t,
                                                heap, FALSE)
        IN /\ SpellsTrue(t) =>
                 (a.ret = 0 /\ a.param.value = 1
                    /\ a.param.type = VIR_TYPED_PARAM_BOOLEAN)
           /\ SpellsFalse(t) =>
                 (a.ret = 0 /\ a.param.value = 0
                    /\ a.param.type = VIR_TYPED_PARAM_BOOLEAN)
           /\ ~(SpellsTrue(t) \/ SpellsFalse(t)) =>
                 (a.ret = -1 /\ a.err = "invalid_arg")

\* add_from_text of a boolean under a name that is not set, then
\* get_boolean.
C20_Add ==
    \A name \in ShortNames, t \in BoolTexts :
        LET r == virTypedParamsAddFromString(params, nparams, maxparams, heap,
                                             name, VIR_TYPED_PARAM_BOOLEAN, t,
                                             FALSE, FALSE)
            g == virTypedParamsGetBoolean(r.params, r.nparams, name, TRUE)
        IN virTypedParamsGet(params, nparams, name) = 0 =>
              /\ (SpellsTrue(t) \/ SpellsFalse(t)) =>
                    /\ r.ret = 0
                    /\ r.nparams = nparams + 1
                    /\ g.ret = 1
                    /\ g.out = IF SpellsTrue(t) THEN 1 ELSE 0
              /\ ~(SpellsTrue(t) \/ SpellsFalse(t)) =>
                    /\ r.ret = -1
                    /\ r.err = "invalid_arg"
                    /\ r.nparams = nparams
                    /\ g.ret = 0

\* C20: the parser of the boolean variant accepts exactly four spellings:
\* any case variant of "true" or the exact text "1" gives true, any case
\* variant of "false" or the exact text "0" gives false, and every other
\* text ("maybe", "", "01", "yes", ...) makes assign_from_text and
\* add_from_text, called with a name that fits and is not set, fail with
\* invalid-argument and leave count unchanged.
C20_BooleanSpellings ==
    /\ C20_Assign
    /\ C20_Add
    /\ \A t \in BoolTexts : ~(SpellsTrue(t) /\ SpellsFalse(t))

\* assign_from_text has stored true for a spelling of "true", after an
\* earlier text was refused with invalid-argument.
C20_Witness ==
    /\ call.op = "assignFromStr" /\ call.ret = 0
    /\ params[1].type = VIR_TYPED_PARAM_BOOLEAN
    /\ params[1].value = 1
    /\ params[1].field = NameUpperA
    /\ lastErr = "invalid_arg"

(* ------------------------------------------------------------------ *)
(* C21                                                                 *)
(* ------------------------------------------------------------------ *)

C21_Assign(op, i, name, type, value, text, oom, a) ==
    (op = "assignFromStr" /\ text = NULL) =>
        /\ a.ret = -1
        /\ a.err = "invalid_arg"
        /\ a.param = params[i]
        /\ a.heap = heap

C21_Add(op, name, type, text, oomResize, oomCopy, r) ==
    (op = "addFromString" /\ text = NULL) =>
        /\ r.ret = -1
        /\ r.nparams = nparams
        /\ r.heap = heap
        /\ \A k \in 1 .. Len(r.params) :
               r.params[k] = IF k <= Len(params) THEN params[k] ELSE ZeroSlot
        /\ r.err = IF virTypedParamsGet(params, nparams, name) # 0
                   THEN "invalid_arg"
                   ELSE IF oomResize /\ nparams + 1 > maxparams THEN "oom"
                   ELSE "invalid_arg"

\* C21: a null text is rejected before anything is written:
\* assign_from_text with a null text returns -1 with invalid-argument,
\* whatever the name and the tag, and leaves the slot's name, type and
\* payload exactly as they were; add_from_text with a null text returns
\* -1, count is unchanged and no slot is written (the error is
\* invalid-argument unless the growth of the array failed first).
C21_NullTextRejected ==
    /\ ForEveryAssign(C21_Assign)
    /\ ForEveryAddOom(C21_Add)

\* assign_from_text has refused a null text on the zero-filled slot, which
\* has neither name nor tag written.
C21_Witness ==
    /\ call.op = "assignFromStr" /\ call.ret = -1
    /\ lastErr = "invalid_arg"
    /\ params[1] = ZeroSlot

(* ------------------------------------------------------------------ *)
(* C22                                                                 *)
(* ------------------------------------------------------------------ *)

\* The lookup on arrays a caller has filled: names may repeat, the count
\* may be below the length of the array, and the array may be NULL
\* whatever the count says.  The last-error slot holds what an earlier
\* call left.
InitFind ==
    /\ params \in SeqsUpTo(ValidateSlots, MaxValidate)
    /\ nparams \in 0 .. (IF params = << >> THEN MaxValidate ELSE Len(params))
    /\ maxparams = Len(params)
    /\ heap = EmptyHeap
    /\ lastErr \in {"none", "oom"}
    /\ schema = << >>
    /\ call = NoCall

NextFind == Get

SpecFind == InitFind /\ [][NextFind]_vars

\* The live entries called name, by exact comparison of the characters.
C22_Named(name) == {i \in 1 .. nparams : params[i].field = name}

C22_Lookup ==
    \A name \in LookupNames :
        LET f == virTypedParamsGet(params, nparams, name)
        IN /\ (params = << >> \/ name = NULL) => f = 0
           /\ (params # << >> /\ name # NULL) =>
                 /\ C22_Named(name) = {} => f = 0
                 /\ C22_Named(name) # {} =>
                       /\ f \in C22_Named(name)
                       /\ \A j \in C22_Named(name) : f <= j
           /\ \A k \in nparams + 1 .. Len(params), slot \in ValidateSlots :
                 virTypedParamsGet([params EXCEPT ![k] = slot], nparams, name) = f

C22_Step ==
    call'.op = "get" =>
        /\ UNCHANGED <<params, nparams, maxparams, heap>>
        /\ lastErr' = "none"

\* C22: find returns the entry of lowest index below count whose name
\* equals the name searched, case included, and absent if there is none
\* or if the array or the name is null; what the slots at or above count
\* hold never changes the result; the call leaves the collection as it
\* was and the last-error slot empty, on a match, on no match and on a
\* null input.
C22_FindFirstByName ==
    /\ [](C22_Lookup /\ (call.op = "get" => lastErr = "none"))
    /\ [][C22_Step]_vars

\* A lookup has gone past an entry whose name differs by case only and has
\* returned the first of two entries of the name.
C22_Witness ==
    /\ call.op = "get" /\ call.out = 2
    /\ Len(params) = 3 /\ nparams = 3
    /\ params[1].field = NameUpperA
    /\ params[2].field = NameA
    /\ params[3].field = NameA
    /\ lastErr = "none"

(* ------------------------------------------------------------------ *)
(* C23                                                                 *)
(* ------------------------------------------------------------------ *)

C23_Add(op, name, type, value, text, r) ==
    /\ r.maxparams >= maxparams
    /\ r.maxparams # maxparams =>
          nparams = maxparams
    /\ (nparams < maxparams /\ r.ret = 0) =>
          /\ r.maxparams = maxparams
          /\ Len(r.params) = Len(params)
          /\ \A k \in 1 .. Len(params) :
                k # nparams + 1 => r.params[k] = params[k]

\* C23: an add changes the capacity only when the array is full on entry
\* (count = capacity, which includes the null array with both at 0):
\* with count < capacity a successful add leaves the capacity as it was
\* and the array with its length and its other slots, and no add,
\* succeeding or failing, ever lowers the capacity.
C23_CapacityGrowsOnlyWhenFull ==
    /\ nparams <= maxparams
    /\ (params = << >>) <=> (maxparams = 0)
    /\ ForEveryAdd(C23_Add)

\* A failed add after a growth has left room behind the live entry, and
\* the add of a new name succeeds there without touching the capacity.
C23_Witness ==
    /\ call.op \in AddOps /\ call.ret = -1
    /\ nparams = 1 /\ maxparams = 2
    /\ LET r == NativeAdd(VIR_TYPED_PARAM_INT, NameUpperA, 5, FALSE)
       IN r.ret = 0 /\ r.nparams = 2 /\ r.maxparams = 2

(* ------------------------------------------------------------------ *)
(* C24                                                                 *)
(* ------------------------------------------------------------------ *)

\* The appenders, virTypedParamsClear on the collection, which the caller
\* goes on using, and virTypedParamsFree.
NextClear ==
    \/ AddInt \/ AddUInt \/ AddLLong \/ AddULLong \/ AddDouble
    \/ AddBoolean \/ AddString \/ AddFromString
    \/ Clear
    \/ Free

SpecClear == Init /\ [][NextClear]_vars

\* The payloads clear has to release: the non-null pointers of the live
\* entries tagged string.
C24_Payloads == {params[i].value : i \in StringEntries} \ {0}

C24_Clear ==
    LET c == virTypedParamsClear(params, nparams, heap)
        again == virTypedParamsClear(c.params, nparams, c.heap)
        f == virTypedParamsFree(c.params, nparams, c.heap)
    IN /\ Range(c.released) = C24_Payloads
       /\ NoRepeat(c.released)
       /\ \A a \in Range(c.released) : heap[a].live
       /\ \A a \in 1 .. HeapSize :
             c.heap[a] = IF a \in C24_Payloads THEN FreeCell ELSE heap[a]
       /\ Len(c.params) = Len(params)
       /\ \A i \in 1 .. Len(params) :
             c.params[i] = IF i \in StringEntries
                           THEN [params[i] EXCEPT !.value = 0]
                           ELSE params[i]
       /\ again.released = << >>
       /\ again.params = c.params
       /\ again.heap = c.heap
       /\ f.released = << >>
       /\ f.heap = c.heap
       /\ params = << >> => c.params = << >> /\ c.heap = heap

\* C24: clear releases the payload of every string-typed slot below count,
\* each once and each allocated, and nulls it; names, tags, non-string
\* values, the slots at or above count and the length of the array are as
\* before; a second clear, or a free, of the cleared collection hands
\* nothing to free() and a second clear changes nothing; on a null
\* collection clear does nothing.
C24_ClearIdempotent ==
    /\ C24_Clear
    /\ call.op = "clear" => C24_Payloads = {}

\* A clear of a collection of two string entries, both already cleared, has
\* released nothing.
C24_Witness ==
    /\ call.op = "clear" /\ call.out = 0
    /\ nparams = 2
    /\ \A i \in 1 .. 2 :
          params[i].type = VIR_TYPED_PARAM_STRING /\ params[i].value = 0
    /\ heap = EmptyHeap

(* ------------------------------------------------------------------ *)
(* C25                                                                 *)
(* ------------------------------------------------------------------ *)

\* What every reader is to leave in the last-error slot.
C25_Expected(r) == IF r.ret = -1 THEN "invalid_arg" ELSE "none"

C25_Readers ==
    \A K \in Kinds, name \in LookupNames, hasOut \in BOOLEAN :
        LET r == Reader(K, params, nparams, name, hasOut)
            after == IF K = VIR_TYPED_PARAM_BOOLEAN
                     THEN LastErrorOfGetBoolean(lastErr, r)
                     ELSE LastErrorOfReader(lastErr, r)
        IN /\ r.ret \in {-1, 0, 1}
           /\ after = C25_Expected(r)
           /\ after = r.err

\* C25: the seven typed readers leave the last-error slot in the same
\* state, although the boolean reader resets it after the lookup and the
\* others before: whatever the slot held on entry, after a result of 1 or
\* 0 it is empty and after -1 it holds the invalid-argument error of this
\* call.
C25_ReadersAgreeOnLastError ==
    /\ C25_Readers
    /\ call.op = "read" => lastErr = (IF call.ret = -1 THEN "invalid_arg" ELSE "none")

\* A failed call has left an error in the slot, no entry is called "A",
\* and the boolean reader asked for "A" returns 0 before its own reset and
\* leaves the slot empty; the entry is a boolean, so the int reader fails
\* on it and the boolean reader succeeds after its reset.
C25_Witness ==
    /\ lastErr = "internal" /\ call.ret = -1
    /\ params[1].field = NameA /\ params[1].type = VIR_TYPED_PARAM_BOOLEAN
    /\ LET miss == virTypedParamsGetBoolean(params, nparams, NameUpperA, TRUE)
           hit == virTypedParamsGetBoolean(params, nparams, NameA, TRUE)
           bad == virTypedParamsGetInt(params, nparams, NameA, TRUE)
       IN /\ miss.ret = 0 /\ LastErrorOfGetBoolean(lastErr, miss) = "none"
          /\ hit.ret = 1 /\ LastErrorOfGetBoolean(lastErr, hit) = "none"
          /\ bad.ret = -1 /\ LastErrorOfReader(lastErr, bad) = "invalid_arg"

====
